---- MODULE Spec2Model ----
(***************************************************************************)
(* On-call notifier: the shift scheduler (timers and notifications), the   *)
(* rotation calculator and the versioned historical store.                 *)
(*                                                                         *)
(* Time is counted in slots: SlotsPerDay slots make one calendar day, an   *)
(* instant is a number of slots since the Unix epoch (a Thursday, 00:00    *)
(* UTC), a UTC offset is a number of slots.  The scheduler's periodic      *)
(* re-evaluation runs once per slot, the 24 h look-ahead window is         *)
(* SlotsPerDay slots.                                                      *)
(***************************************************************************)
EXTENDS Integers, Sequences, FiniteSets, TLC

\* ------------------------------------------------------------------------
\* Bounds of the model
\* ------------------------------------------------------------------------
SlotsPerDay == 3
HorizonDays == 5
MaxStarts == 2
MaxLead == 1

VARIABLES
  now,            \* current instant (slots since the epoch, UTC)
  serverTz,       \* UTC offset of the server's local time zone, in slots
  minutesBefore,  \* config.notifications.minutesBefore, in slots
  scheduleFile,   \* the schedule document the Schedule Source holds
  scheduleData,   \* ShiftSchedulerService.scheduleData; <<>> when null
  isRunning,      \* ShiftSchedulerService.isRunning
  activeTimers,   \* keys of ShiftSchedulerService.activeTimers
  liveTimers,     \* pending setTimeout handles: timer key -> how many
  intervals,      \* live setInterval handles
  checkInterval,  \* ShiftSchedulerService.checkInterval; 0 when null
  ticked,         \* interval handles that already ran in the current slot
  pendingStarts,  \* start() calls suspended at `await this.loadSchedule()`
  starts,         \* number of start() calls that got past the await
  sent,           \* ShiftTransitions handed to the dispatcher: key -> count
  runningSince,   \* instant of the start() the scheduler is running from
  firstStart,     \* instant of the start() of a scheduler that is then kept running
  aLayer,         \* argument layer of the function called (calculateCurrentAssignment, window tests, occurrence finder)
  aKey,           \* calculateCurrentAssignment: argument layerKey
  aInstant,       \* argument date (currentTime, now) of the function called
  aOverrides,     \* calculateCurrentAssignment: argument overrides
  aCopy,          \* which function, or copy of calculateCurrentAssignment, was called
  aResult,        \* what the call returned; {} before the call
  currentSchedule,  \* VersionedScheduleService.currentSchedule
  currentVersion,   \* VersionedScheduleService.currentVersion; {} for null
  versions,       \* table schedule_versions, in id order
  assignments,    \* table historical_assignments, in id order
  monthly,        \* table monthly_overrides, in id order
  lookups,        \* getAssignmentForDate calls in flight, with their locals
  firstRecorded,  \* per (date, layerKey): person and version of the first storeHistoricalAssignment call
  lastResponse    \* what the call completed by the last step returned

schedVars == <<now, serverTz, minutesBefore, scheduleFile, scheduleData,
               isRunning, activeTimers, liveTimers, intervals, checkInterval,
               ticked, pendingStarts, starts, sent, runningSince, firstStart>>

assignVars == <<aLayer, aKey, aInstant, aOverrides, aCopy, aResult>>

ledgerVars == <<currentSchedule, currentVersion, versions, assignments, monthly,
                lookups, firstRecorded, lastResponse>>

\* what the scheduler's steps leave alone
notSched == <<assignVars, ledgerVars>>

\* the scheduler's variables other than the clock and the schedule file
schedRest == <<serverTz, minutesBefore, scheduleData, isRunning, activeTimers, liveTimers,
               intervals, checkInterval, ticked, pendingStarts, starts, sent, runningSince,
               firstStart>>

vars == <<schedVars, assignVars, ledgerVars>>

\* ------------------------------------------------------------------------
\* Values
\* ------------------------------------------------------------------------
None == {}
Some(x) == {x}
The(s) == CHOOSE x \in s : TRUE

\* the JavaScript value null of scheduleData
NullDoc == <<>>

\* a multiset as a function from its elements to positive counts
EmptyBag == <<>>
BagCount(b, k) == IF k \in DOMAIN b THEN b[k] ELSE 0
BagAdd(b, k) == [x \in DOMAIN b \cup {k} |-> BagCount(b, x) + (IF x = k THEN 1 ELSE 0)]
BagRemove(b, k) ==
  IF BagCount(b, k) = 0 THEN b
  ELSE [x \in {y \in DOMAIN b : y # k \/ b[y] > 1} |-> IF x = k THEN b[x] - 1 ELSE b[x]]

RECURSIVE BagRemoveAll(_, _)
BagRemoveAll(b, ks) ==
  IF ks = {} THEN b
  ELSE LET k == The(ks) IN BagRemoveAll(BagRemove(b, k), ks \ {k})

\* the sum of the counts of the keys ks
RECURSIVE SumCounts(_, _)
SumCounts(b, ks) ==
  IF ks = {} THEN 0
  ELSE LET k == The(ks) IN BagCount(b, k) + SumCounts(b, ks \ {k})

\* ------------------------------------------------------------------------
\* Layers and schedule documents
\* ------------------------------------------------------------------------
\* start_time is the ISO-8601 string <start_day>T<start_clock><tz>: a
\* calendar day and a clock slot in the layer's own offset tz.
Layer(type, start_day, start_clock, end_clock, tz, days_rotate, users) ==
  [type |-> type, start_day |-> start_day, start_clock |-> start_clock,
   end_clock |-> end_clock, tz |-> tz, days_rotate |-> days_rotate,
   users |-> users]

Entry(key, config) == [key |-> key, config |-> config]

\* new Date(layerConfig.start_time): the instant of the start
StartInstant(layer) == (layer.start_day * SlotsPerDay + layer.start_clock) - layer.tz

\* Date#getDay() in the offset tz: 0 Sunday .. 6 Saturday (day 0 is a Thursday)
DayNumber(t, tz) == (t + tz) \div SlotsPerDay
DayOfWeek(day) == (4 + day) % 7
getDay(t, tz) == DayOfWeek(DayNumber(t, tz))

\* getHours() * 60 + getMinutes() in the offset tz
ClockOf(t, tz) == (t + tz) % SlotsPerDay

\* getHours() < 10
HourBefore10(clock) == (clock * 24) \div SlotsPerDay < 10

\* ------------------------------------------------------------------------
\* RotationCalculator (calculateCurrentAssignment)
\* ------------------------------------------------------------------------
\* The overrides object holds both key formats: byDate is the structured
\* "<YYYY-MM-DD>" -> {layerKey: person} map, as pairs <<day, layerKey>>;
\* legacy is the "<toDateString()>-<layerKey>" -> {person, reason} map.
Overrides(byDate, legacy) == [byDate |-> byDate, legacy |-> legacy]
NoOverrides == Overrides(<<>>, <<>>)

Assignment(person, isOverride) == [person |-> person, isOverride |-> isOverride]

RECURSIVE CountDays(_, _, _)
\* the `while (tempDate <= last)` loops: days of [from, last] whose day of week is in dows
CountDays(from, last, dows) ==
  IF from > last THEN 0
  ELSE (IF DayOfWeek(from) \in dows THEN 1 ELSE 0) + CountDays(from + 1, last, dows)

\* daysDiff with the weekday loop stopping before the current date
daysDiff_ExclusiveWeekday(type, startDate, currentDate) ==
  IF type = "weekday" THEN CountDays(startDate, currentDate - 1, 1..5)
  ELSE IF type = "weekend" THEN CountDays(startDate, currentDate - 1, {0, 6})
  ELSE currentDate - startDate

\* daysDiff from the start date and the current date
daysDiff(type, startDate, currentDate) ==
  IF type = "weekday" THEN CountDays(startDate, currentDate, 1..5)
  ELSE IF type = "weekend" THEN CountDays(startDate, currentDate - 1, {0, 6})
  ELSE currentDate - startDate

rotationCycle(diff, days_rotate) == IF diff > 0 THEN (diff - 1) \div days_rotate ELSE 0

\* users[rotationCycle % users.length]
RotatedUser(layer, startDate, currentDate) ==
  layer.users[(rotationCycle(daysDiff(layer.type, startDate, currentDate), layer.days_rotate)
               % Len(layer.users)) + 1]

\* the part of both copies after the date key is taken, with a rotation period
\* of 0 days counted as a period of one day
AssignWithDateKey_ZeroRotatesDaily(layer, dateStr, localDate, startDate, currentDate, overrides, layerKey) ==
  IF Len(layer.users) = 0 THEN Assignment("No users assigned", FALSE)
  ELSE IF <<dateStr, layerKey>> \in DOMAIN overrides.byDate
    THEN Assignment(overrides.byDate[<<dateStr, layerKey>>], TRUE)
  ELSE IF <<localDate, layerKey>> \in DOMAIN overrides.legacy
    THEN Assignment(overrides.legacy[<<localDate, layerKey>>], TRUE)
  ELSE IF layer.days_rotate = 0
    THEN Assignment(layer.users[(rotationCycle(daysDiff(layer.type, startDate, currentDate), 1)
                                 % Len(layer.users)) + 1], FALSE)
  ELSE Assignment(RotatedUser(layer, startDate, currentDate), FALSE)

\* the part of both copies after the date key is taken
AssignWithDateKey(layer, dateStr, localDate, startDate, currentDate, overrides, layerKey) ==
  IF Len(layer.users) = 0 THEN Assignment("No users assigned", FALSE)
  ELSE IF <<dateStr, layerKey>> \in DOMAIN overrides.byDate
    THEN Assignment(overrides.byDate[<<dateStr, layerKey>>], TRUE)
  ELSE IF <<localDate, layerKey>> \in DOMAIN overrides.legacy
    THEN Assignment(overrides.legacy[<<localDate, layerKey>>], TRUE)
  ELSE IF layer.days_rotate = 0 THEN Assignment(layer.users[1], FALSE)
  ELSE Assignment(RotatedUser(layer, startDate, currentDate), FALSE)

\* first copy: the date key and the day counting use the layer's own offset
calculateCurrentAssignment(layer, date, overrides, layerKey, tz) ==
  AssignWithDateKey(layer, DayNumber(date, layer.tz), DayNumber(date, tz),
                    layer.start_day, DayNumber(date, layer.tz), overrides, layerKey)

\* second copy: the date key is the UTC date (toISOString), the day counting
\* uses the server's local dates
calculateCurrentAssignmentUtc(layer, date, overrides, layerKey, tz) ==
  AssignWithDateKey(layer, DayNumber(date, 0), DayNumber(date, tz),
                    DayNumber(StartInstant(layer), tz), DayNumber(date, tz),
                    overrides, layerKey)

\* ------------------------------------------------------------------------
\* OccurrenceFinder (ShiftSchedulerService.getNextShiftOccurrence and
\* getNextWeekendOccurrence).  All Date getters and setters work in the
\* server's local time zone, tz.
\* ------------------------------------------------------------------------
\* todayShift: `now` with hours and minutes set to those of shiftStartTime
TodayAt(shiftStartTime, t, tz) == (t - ClockOf(t, tz)) + ClockOf(shiftStartTime, tz)

\* the probe loop without the acceptance of a Saturday for early-morning shifts
RECURSIVE ProbeDays_NoSaturday(_, _, _, _)
ProbeDays_NoSaturday(todayShift, isEarlyMorningShift, daysToAdd, tz) ==
  IF daysToAdd > 7 THEN None
  ELSE LET candidate == todayShift + daysToAdd * SlotsPerDay IN
       IF getDay(candidate, tz) # 0 /\ getDay(candidate, tz) # 6 THEN Some(candidate)
       ELSE ProbeDays_NoSaturday(todayShift, isEarlyMorningShift, daysToAdd + 1, tz)

\* the probe loop giving up after the first day
RECURSIVE ProbeDays_OneDay(_, _, _, _)
ProbeDays_OneDay(todayShift, isEarlyMorningShift, daysToAdd, tz) ==
  IF daysToAdd > 1 THEN None
  ELSE LET candidate == todayShift + daysToAdd * SlotsPerDay IN
       IF isEarlyMorningShift /\ getDay(candidate, tz) = 6 THEN Some(candidate)
       ELSE IF getDay(candidate, tz) # 0 /\ getDay(candidate, tz) # 6 THEN Some(candidate)
       ELSE ProbeDays_OneDay(todayShift, isEarlyMorningShift, daysToAdd + 1, tz)

RECURSIVE ProbeDays(_, _, _, _)
ProbeDays(todayShift, isEarlyMorningShift, daysToAdd, tz) ==
  IF daysToAdd > 7 THEN None
  ELSE LET candidate == todayShift + daysToAdd * SlotsPerDay IN
       IF isEarlyMorningShift /\ getDay(candidate, tz) = 6 THEN Some(candidate)
       ELSE IF getDay(candidate, tz) # 0 /\ getDay(candidate, tz) # 6 THEN Some(candidate)
       ELSE ProbeDays(todayShift, isEarlyMorningShift, daysToAdd + 1, tz)

getNextShiftOccurrence(shiftStartTime, t, tz) ==
  LET todayShift == TodayAt(shiftStartTime, t, tz)
      isEarlyMorningShift == HourBefore10(ClockOf(shiftStartTime, tz))
  IN IF todayShift > t /\ getDay(todayShift, tz) # 0 /\ getDay(todayShift, tz) # 6
     THEN Some(todayShift)
     ELSE ProbeDays(todayShift, isEarlyMorningShift, 1, tz)

daysUntilWeekend(shiftStartTime, t, tz) ==
  LET currentDay == getDay(t, tz) IN
  IF currentDay = 6 THEN 0
  ELSE IF currentDay = 0
       THEN (IF ClockOf(t, tz) < ClockOf(shiftStartTime, tz) THEN 0 ELSE 6)
       ELSE (IF (6 - currentDay) % 7 = 0 THEN 7 ELSE (6 - currentDay) % 7)

getNextWeekendOccurrence(shiftStartTime, t, tz) ==
  Some(TodayAt(shiftStartTime, t, tz) + daysUntilWeekend(shiftStartTime, t, tz) * SlotsPerDay)

\* ------------------------------------------------------------------------
\* ShiftScheduler: the timer set
\* ------------------------------------------------------------------------
\* timerKey = `${layerKey}-${shiftTime.getTime()}`
TimerKey(layerKey, shiftTime) == <<layerKey, shiftTime>>

\* new Date(timerKey) in the "clear old timers" loop.  The key is a layer key,
\* a dash and an epoch-milliseconds number, which is no date string: the
\* result is an Invalid Date, and `Invalid Date < now` is false.
KeyAsDate(key) == None

StaleKeys(active, t) == {k \in active : KeyAsDate(k) # None /\ The(KeyAsDate(k)) < t}

\* the timer state a tick works on
TimerState(active, live) == [active |-> active, live |-> live]

clearOldTimers(st, t) ==
  TimerState(st.active \ StaleKeys(st.active, t),
             BagRemoveAll(st.live, StaleKeys(st.active, t)))

\* scheduleNotificationForShift without `if (notificationTime <= now) return`:
\* a past notification time gives a timer that fires at once
scheduleNotificationForShift_NoPastCheck(st, shiftTime, layerKey, lead, t) ==
  LET timerKey == TimerKey(layerKey, shiftTime)
  IN IF timerKey \in st.active THEN st
     ELSE TimerState(st.active \cup {timerKey}, BagAdd(st.live, timerKey))

scheduleNotificationForShift(st, shiftTime, layerKey, lead, t) ==
  LET notificationTime == shiftTime - lead
      timerKey == TimerKey(layerKey, shiftTime)
  IN IF notificationTime <= t THEN st
     ELSE IF timerKey \in st.active THEN st
     ELSE TimerState(st.active \cup {timerKey}, BagAdd(st.live, timerKey))

\* the window test without the 24-hour limit
InWindow_NoLimit(next, t) == next # None

\* nextShiftTime && nextShiftTime - now <= notificationWindow
InWindow(next, t) == next # None /\ The(next) - t <= SlotsPerDay

RECURSIVE scheduleWeekdayNotifications(_, _, _, _, _)
scheduleWeekdayNotifications(st, entries, lead, t, tz) ==
  IF entries = <<>> THEN st
  ELSE LET e == Head(entries)
           nextShiftTime == getNextShiftOccurrence(StartInstant(e.config), t, tz)
           st1 == IF InWindow(nextShiftTime, t)
                  THEN scheduleNotificationForShift(st, The(nextShiftTime), e.key, lead, t)
                  ELSE st
       IN scheduleWeekdayNotifications(st1, Tail(entries), lead, t, tz)

RECURSIVE scheduleWeekendNotifications(_, _, _, _, _)
scheduleWeekendNotifications(st, entries, lead, t, tz) ==
  IF entries = <<>> THEN st
  ELSE LET e == Head(entries)
           nextShiftTime == getNextWeekendOccurrence(StartInstant(e.config), t, tz)
           st1 == IF InWindow(nextShiftTime, t)
                  THEN scheduleNotificationForShift(st, The(nextShiftTime), e.key, lead, t)
                  ELSE st
       IN scheduleWeekendNotifications(st1, Tail(entries), lead, t, tz)

scheduleNextNotifications(st, doc, lead, t, tz) ==
  IF doc = NullDoc THEN st
  ELSE scheduleWeekendNotifications(
         scheduleWeekdayNotifications(clearOldTimers(st, t), doc.weekday, lead, t, tz),
         doc.weekend, lead, t, tz)

\* ------------------------------------------------------------------------
\* Schedule documents the scheduler runs on.  Layers are written in the
\* offset +1 slot.  On a server in UTC layer1 starts in the last slot of the
\* day, layer4 in slot 1 (early morning), the weekend layer in one of the two.
\* ------------------------------------------------------------------------
WeekdayLayer(start_clock, days_rotate, users) ==
  Layer("weekday", 0, start_clock, (start_clock + 1) % SlotsPerDay, 1, days_rotate, users)

WeekendLayer(start_clock, days_rotate, users) ==
  Layer("weekend", 2, start_clock, start_clock, 1, days_rotate, users)

SchedDocA ==
  [weekday |-> <<Entry("layer1", WeekdayLayer(0, 2, <<"dinesh", "melannie">>)),
                 Entry("layer4", WeekdayLayer(2, 0, <<"michael">>))>>,
   weekend |-> <<Entry("full_weekend", WeekendLayer(2, 7, <<"michael", "kartikeya">>))>>]

SchedDocB ==
  [weekday |-> <<Entry("layer4", WeekdayLayer(2, 0, <<"michael">>))>>,
   weekend |-> <<Entry("full_weekend", WeekendLayer(0, 7, <<"michael", "kartikeya">>))>>]

SchedDocs == {SchedDocA, SchedDocB}

\* the schedule file when it cannot be read: not found in any of the expected
\* locations, or not parseable as YAML
FileMissing == [error |-> "not found"]
FileCorrupt == [error |-> "YAMLException"]
Unavailable(file) == "error" \in DOMAIN file

\* the built-in schedule (of its layers, layer1, layer4 and full_weekend)
getFallbackScheduleData ==
  [weekday |-> <<Entry("layer1", WeekdayLayer(0, 2, <<"dinesh", "melannie", "prashanth",
                                                      "alrida">>)),
                 Entry("layer4", WeekdayLayer(2, 0, <<"michael">>))>>,
   weekend |-> <<Entry("full_weekend", WeekendLayer(2, 7, <<"michael", "kartikeya">>))>>]

\* loadScheduleData(): the document of the schedule file, and the built-in
\* schedule when the file is not found or reading or parsing it throws
loadScheduleData ==
  IF Unavailable(scheduleFile) THEN getFallbackScheduleData ELSE scheduleFile

MaxTime == HorizonDays * SlotsPerDay

\* the setTimeout delay has run out
Due(key) == key[2] - minutesBefore <= now

\* ------------------------------------------------------------------------
\* Inputs of calculateCurrentAssignment
\* ------------------------------------------------------------------------
MaxMembers == 4
MaxPeriod == 2
AssignDays == 6

Roster == <<"A", "B", "C", "D", "E", "F", "G">>
Offsets == {-1, 0, 1}

AssignLayers ==
  { Layer(type, start_day, 0, 1, tz, days_rotate, SubSeq(Roster, 1, n)) :
      type \in {"weekday", "weekend"}, start_day \in {0, 1}, tz \in Offsets,
      days_rotate \in 0..MaxPeriod, n \in {m \in 0..MaxMembers : m <= Len(Roster)} }

\* overrides for layer1 on day 1 (structured), on day 4 (legacy), both, none,
\* and one for another layer only
AssignOverrides ==
  { NoOverrides,
    Overrides(<<1, "layer1">> :> "carol", <<>>),
    Overrides(<<>>, <<4, "layer1">> :> "dave"),
    Overrides(<<1, "layer1">> :> "carol" @@ <<2, "layer2">> :> "erin",
              <<4, "layer1">> :> "dave"),
    Overrides(<<2, "layer2">> :> "erin", <<>>) }

\* the last step completed no call
NoResponse == [op |-> "none"]

\* the ledger after construction: no schedule loaded, empty tables
LedgerIdle ==
  /\ currentSchedule = NullDoc
  /\ currentVersion = None
  /\ versions = <<>>
  /\ assignments = <<>>
  /\ monthly = <<>>
  /\ lookups = EmptyBag
  /\ firstRecorded = <<>>
  /\ lastResponse = NoResponse

AssignIdle ==
  /\ aLayer = Layer("weekday", 0, 0, 1, 0, 0, <<>>)
  /\ aKey = "layer1"
  /\ aInstant = 0
  /\ aOverrides = NoOverrides
  /\ aCopy = "tz"
  /\ aResult = None

\* ------------------------------------------------------------------------
\* Scheduler actions
\* ------------------------------------------------------------------------
SchedInit ==
  /\ now = 0
  /\ serverTz = 0
  /\ minutesBefore \in 0..MaxLead
  /\ scheduleFile \in SchedDocs
  /\ scheduleData = NullDoc
  /\ isRunning = FALSE
  /\ activeTimers = {}
  /\ liveTimers = EmptyBag
  /\ intervals = {}
  /\ checkInterval = 0
  /\ ticked = {}
  /\ pendingStarts = 0
  /\ starts = 0
  /\ sent = EmptyBag
  /\ runningSince = None
  /\ firstStart = None
  /\ AssignIdle
  /\ LedgerIdle

\* start(), up to `await this.loadSchedule()`
StartBegin ==
  /\ ~isRunning
  /\ starts + pendingStarts < MaxStarts
  /\ pendingStarts' = pendingStarts + 1
  /\ UNCHANGED <<now, serverTz, minutesBefore, scheduleFile, scheduleData, isRunning,
                 activeTimers, liveTimers, intervals, checkInterval, ticked, starts,
                 sent, runningSince, firstStart>>
  /\ UNCHANGED notSched

\* start(), from the resolved load on: the first evaluation and setInterval
StartFinish ==
  /\ pendingStarts > 0
  /\ pendingStarts' = pendingStarts - 1
  /\ starts' = starts + 1
  /\ scheduleData' = loadScheduleData
  /\ isRunning' = TRUE
  /\ LET st == scheduleNextNotifications(TimerState(activeTimers, liveTimers),
                                         loadScheduleData, minutesBefore, now, serverTz)
     IN /\ activeTimers' = st.active
        /\ liveTimers' = st.live
  /\ intervals' = intervals \cup {starts + 1}
  /\ checkInterval' = starts + 1
  /\ ticked' = ticked \cup {starts + 1}
  /\ runningSince' = IF isRunning THEN runningSince ELSE Some(now)
  /\ UNCHANGED firstStart
  /\ UNCHANGED <<now, serverTz, minutesBefore, scheduleFile, sent>>
  /\ UNCHANGED notSched

\* stop()
Stop ==
  /\ isRunning
  /\ liveTimers' = BagRemoveAll(liveTimers, activeTimers)
  /\ activeTimers' = {}
  /\ intervals' = intervals \ {checkInterval}
  /\ ticked' = ticked \ {checkInterval}
  /\ checkInterval' = 0
  /\ isRunning' = FALSE
  /\ runningSince' = None
  /\ UNCHANGED firstStart
  /\ UNCHANGED <<now, serverTz, minutesBefore, scheduleFile, scheduleData,
                 pendingStarts, starts, sent>>
  /\ UNCHANGED notSched

\* the setInterval callback of handle i: scheduleNextNotifications()
Tick(i) ==
  /\ i \in intervals \ ticked
  /\ ticked' = ticked \cup {i}
  /\ LET st == scheduleNextNotifications(TimerState(activeTimers, liveTimers),
                                         scheduleData, minutesBefore, now, serverTz)
     IN /\ activeTimers' = st.active
        /\ liveTimers' = st.live
  /\ UNCHANGED <<now, serverTz, minutesBefore, scheduleFile, scheduleData, isRunning,
                 intervals, checkInterval, pendingStarts, starts, sent, runningSince,
                 firstStart>>
  /\ UNCHANGED notSched

\* the setTimeout callback of a timer of `key`:
\* sendShiftNotification(shiftTime, layerConfig, layerKey); activeTimers.delete(timerKey)
Fire(key) ==
  /\ BagCount(liveTimers, key) > 0
  /\ Due(key)
  /\ liveTimers' = BagRemove(liveTimers, key)
  /\ sent' = BagAdd(sent, key)
  /\ activeTimers' = activeTimers \ {key}
  /\ UNCHANGED <<now, serverTz, minutesBefore, scheduleFile, scheduleData, isRunning,
                 intervals, checkInterval, ticked, pendingStarts, starts, runningSince,
                 firstStart>>
  /\ UNCHANGED notSched

\* one slot passes: every interval has run and no timer is overdue
Advance ==
  /\ now < MaxTime
  /\ ticked = intervals
  /\ \A k \in DOMAIN liveTimers : ~Due(k)
  /\ now' = now + 1
  /\ ticked' = {}
  /\ UNCHANGED <<serverTz, minutesBefore, scheduleFile, scheduleData, isRunning,
                 activeTimers, liveTimers, intervals, checkInterval, pendingStarts,
                 starts, sent, runningSince, firstStart>>
  /\ UNCHANGED notSched

SchedNext ==
  \/ StartBegin
  \/ StartFinish
  \/ Stop
  \/ \E i \in intervals : Tick(i)
  \/ \E key \in DOMAIN liveTimers : Fire(key)
  \/ Advance

SpecSched == SchedInit /\ [][SchedNext]_vars

\* start() on a scheduler never started before, the schedule load resolving
\* within the same slot
FirstStart ==
  /\ ~isRunning
  /\ starts = 0
  /\ pendingStarts = 0
  /\ starts' = 1
  /\ scheduleData' = loadScheduleData
  /\ isRunning' = TRUE
  /\ LET st == scheduleNextNotifications(TimerState(activeTimers, liveTimers),
                                         loadScheduleData, minutesBefore, now, serverTz)
     IN /\ activeTimers' = st.active
        /\ liveTimers' = st.live
  /\ intervals' = intervals \cup {1}
  /\ checkInterval' = 1
  /\ ticked' = ticked \cup {1}
  /\ runningSince' = Some(now)
  /\ firstStart' = Some(now)
  /\ UNCHANGED <<now, serverTz, minutesBefore, scheduleFile, pendingStarts, sent>>
  /\ UNCHANGED notSched

\* stop() followed at once by start(), the schedule load resolving within the
\* same slot: the restart of a running scheduler at the instant `now`
Restart ==
  /\ isRunning
  /\ pendingStarts = 0
  /\ starts < MaxStarts
  /\ starts' = starts + 1
  /\ scheduleData' = loadScheduleData
  /\ isRunning' = TRUE
  /\ LET st == scheduleNextNotifications(
                 TimerState({}, BagRemoveAll(liveTimers, activeTimers)),
                 loadScheduleData, minutesBefore, now, serverTz)
     IN /\ activeTimers' = st.active
        /\ liveTimers' = st.live
  /\ intervals' = (intervals \ {checkInterval}) \cup {starts + 1}
  /\ checkInterval' = starts + 1
  /\ ticked' = (ticked \ {checkInterval}) \cup {starts + 1}
  /\ runningSince' = Some(now)
  /\ UNCHANGED <<now, serverTz, minutesBefore, scheduleFile, pendingStarts, sent, firstStart>>
  /\ UNCHANGED notSched

\* a scheduler that is started and then restarted, never left stopped
RestartNext ==
  \/ FirstStart
  \/ Restart
  \/ \E i \in intervals : Tick(i)
  \/ \E key \in DOMAIN liveTimers : Fire(key)
  \/ Advance

SpecRestart == SchedInit /\ [][RestartNext]_vars

\* A slot passes although the callback of a due timer has not run: setTimeout
\* and setInterval callbacks run no earlier than their delay, and later when
\* the event loop is busy or the process is held.  The interval is due again.
Stall ==
  /\ now < MaxTime
  /\ \E k \in DOMAIN liveTimers : Due(k)
  /\ now' = now + 1
  /\ ticked' = {}
  /\ UNCHANGED <<serverTz, minutesBefore, scheduleFile, scheduleData, isRunning,
                 activeTimers, liveTimers, intervals, checkInterval, pendingStarts,
                 starts, sent, runningSince, firstStart>>
  /\ UNCHANGED notSched

\* a started scheduler whose callbacks may run late
TicksNext ==
  \/ FirstStart
  \/ \E i \in intervals : Tick(i)
  \/ \E key \in DOMAIN liveTimers : Fire(key)
  \/ Advance
  \/ Stall

SpecTicks == SchedInit /\ [][TicksNext]_vars

\* The keys a scheduler started at t0 and never stopped has notified by the
\* end of slot `last`: in every slot its due timers fire and its tick runs.
RECURSIVE ContinuousRun(_, _, _, _)
ContinuousRun(st, fired, s, last) ==
  IF s > last THEN fired
  ELSE LET due == {k \in st.active : k[2] - minutesBefore <= s}
           rest == TimerState(st.active \ due, BagRemoveAll(st.live, due))
       IN ContinuousRun(scheduleNextNotifications(rest, scheduleFile, minutesBefore, s,
                                                  serverTz),
                        fired \cup due, s + 1, last)

ContinuousFired(t0, last) == ContinuousRun(TimerState({}, EmptyBag), {}, t0, last)

\* ------------------------------------------------------------------------
\* The rotation calculator applied to inputs drawn from the sets above
\* ------------------------------------------------------------------------
SchedIdle ==
  /\ now = 0
  /\ minutesBefore = 0
  /\ scheduleFile = NullDoc
  /\ scheduleData = NullDoc
  /\ isRunning = FALSE
  /\ activeTimers = {}
  /\ liveTimers = EmptyBag
  /\ intervals = {}
  /\ checkInterval = 0
  /\ ticked = {}
  /\ pendingStarts = 0
  /\ starts = 0
  /\ sent = EmptyBag
  /\ runningSince = None
  /\ firstStart = None

AssignInit ==
  /\ SchedIdle
  /\ LedgerIdle
  /\ serverTz \in Offsets
  /\ aLayer \in AssignLayers
  /\ aKey = "layer1"
  /\ aInstant \in 0..(AssignDays * SlotsPerDay)
  /\ aOverrides \in AssignOverrides
  /\ aCopy = "tz"
  /\ aResult = None

\* a call of the first copy
AssignTz ==
  /\ aResult = None
  /\ aCopy' = "tz"
  /\ aResult' = Some(calculateCurrentAssignment(aLayer, aInstant, aOverrides, aKey, serverTz))
  /\ UNCHANGED <<aLayer, aKey, aInstant, aOverrides, schedVars, ledgerVars>>

\* a call of the second copy
AssignUtc ==
  /\ aResult = None
  /\ aCopy' = "utc"
  /\ aResult' = Some(calculateCurrentAssignmentUtc(aLayer, aInstant, aOverrides, aKey, serverTz))
  /\ UNCHANGED <<aLayer, aKey, aInstant, aOverrides, schedVars, ledgerVars>>

AssignNext ==
  \/ AssignTz
  \/ AssignUtc

SpecAssign == AssignInit /\ [][AssignNext]_vars

\* ------------------------------------------------------------------------
\* Ledger: HistoryService (the tables) and VersionedScheduleService
\* ------------------------------------------------------------------------
\* Dates "YYYY-MM-DD" are day numbers, months "YYYY-MM" are month numbers of
\* DaysPerMonth days; string comparison of either is integer comparison.
DaysPerMonth == 2
LedgerDays == 1
MaxVersions == 2
MaxOverrideRows == 1

\* new Date().toISOString().split('T')[0]
Today == DayNumber(now, 0)
\* dateString.substring(0, 7)
MonthOf(date) == date \div DaysPerMonth

VersionRow(id, effective_date, schedule_data, is_active) ==
  [id |-> id, effective_date |-> effective_date, schedule_data |-> schedule_data,
   is_active |-> is_active]

\* INSERT INTO schedule_versions: AUTOINCREMENT id, is_active DEFAULT 1
createScheduleVersion(vs, schedule, effectiveDate) ==
  Append(vs, VersionRow(Len(vs) + 1, effectiveDate, schedule, TRUE))

\* the object createScheduleVersion resolves with
CreatedVersion(vs, effectiveDate) == [id |-> Len(vs) + 1, effectiveDate |-> effectiveDate]

\* getScheduleForDate without `effective_date <= ?`
getScheduleForDate_NoDateFilter(vs, targetDate) ==
  LET rows == {vs[i] : i \in {j \in 1..Len(vs) : vs[j].is_active}}
      first == {r \in rows : \A q \in rows : q.effective_date <= r.effective_date}
  IN IF first = {} THEN {None} ELSE {Some(r) : r \in first}

\* SELECT * FROM schedule_versions WHERE effective_date <= ? AND is_active = 1
\* ORDER BY effective_date DESC LIMIT 1: the rows the query may return (the
\* ORDER BY leaves the order of rows of one effective_date open)
getScheduleForDate(vs, targetDate) ==
  LET rows == {vs[i] : i \in {j \in 1..Len(vs) :
                                vs[j].effective_date <= targetDate /\ vs[j].is_active}}
      first == {r \in rows : \A q \in rows : q.effective_date <= r.effective_date}
  IN IF first = {} THEN {None} ELSE {Some(r) : r \in first}

AssignmentRow(date, layer_key, person, version_id) ==
  [date |-> date, layer_key |-> layer_key, person |-> person, version_id |-> version_id]

\* the rows of (date, layerKey)
RowsOf(rows, date, layerKey) ==
  {i \in 1..Len(rows) : rows[i].date = date /\ rows[i].layer_key = layerKey}

\* storeHistoricalAssignment as a plain INSERT into a table without UNIQUE
storeHistoricalAssignment_NoUnique(rows, date, layerKey, person, versionId) ==
  [rows |-> Append(rows, AssignmentRow(date, layerKey, person, versionId)),
   changes |-> 1, resolved |-> TRUE]

\* storeHistoricalAssignment as INSERT OR REPLACE
storeHistoricalAssignment_Replace(rows, date, layerKey, person, versionId) ==
  [rows |-> Append(SelectSeq(rows, LAMBDA r : ~(r.date = date /\ r.layer_key = layerKey)),
                   AssignmentRow(date, layerKey, person, versionId)),
   changes |-> 1, resolved |-> TRUE]

\* INSERT OR IGNORE INTO historical_assignments, UNIQUE(date, layer_key):
\* the table afterwards, this.changes, and whether the promise resolved
storeHistoricalAssignment(rows, date, layerKey, person, versionId) ==
  IF RowsOf(rows, date, layerKey) # {}
    THEN [rows |-> rows, changes |-> 0, resolved |-> TRUE]
    ELSE [rows |-> Append(rows, AssignmentRow(date, layerKey, person, versionId)),
          changes |-> 1, resolved |-> TRUE]

\* SELECT * FROM historical_assignments WHERE date = ? AND layer_key = ?
\* (db.get: one of the matching rows, or undefined)
getHistoricalAssignment(rows, date, layerKey) ==
  IF RowsOf(rows, date, layerKey) = {} THEN {None}
  ELSE {Some(rows[i]) : i \in RowsOf(rows, date, layerKey)}

OverrideRow(month, override_data) == [month |-> month, override_data |-> override_data]

\* INSERT OR REPLACE INTO monthly_overrides: the table has no UNIQUE on month
\* and the statement gives no id, so no row ever conflicts
storeMonthlyOverrides(rows, month, overrideData) ==
  Append(rows, OverrideRow(month, overrideData))

\* SELECT * FROM monthly_overrides WHERE month = ? (db.get: one matching row)
getMonthlyOverrides(rows, month) ==
  LET found == {i \in 1..Len(rows) : rows[i].month = month}
  IN IF found = {} THEN {None} ELSE {Some(rows[i]) : i \in found}

\* VersionedScheduleService.getOverrides: result ? result.override_data : {}
getOverrides(rows, month) ==
  {IF r = None THEN NoOverrides ELSE The(r).override_data : r \in getMonthlyOverrides(rows, month)}

\* the groups of a schedule document
Groups == {"weekday", "weekend"}
LayersOf(schedule, group) == IF group \in DOMAIN schedule THEN schedule[group] ELSE <<>>

\* JSON.stringify(value, keys): an array replacer keeps, in every object at
\* every depth, only the properties named in it
WhitelistLayer(config, keys) == [f \in (DOMAIN config) \cap keys |-> config[f]]
WhitelistGroup(entries, keys) ==
  LET kept == SelectSeq(entries, LAMBDA e : e.key \in keys)
  IN [i \in DOMAIN kept |-> Entry(kept[i].key, WhitelistLayer(kept[i].config, keys))]

\* hashSchedule: JSON.stringify(schedule, Object.keys(schedule).sort()), then
\* md5, taken as injective
hashSchedule(schedule) ==
  [k \in DOMAIN schedule |->
     IF k \in Groups THEN WhitelistGroup(schedule[k], DOMAIN schedule) ELSE schedule[k]]

\* getEarliestEffectiveDate: the least start date of the layers, {} for null
getEarliestEffectiveDate(schedule) ==
  LET dates == UNION {{LayersOf(schedule, g)[i].config.start_day :
                         i \in DOMAIN LayersOf(schedule, g)} : g \in Groups}
  IN IF dates = {} THEN None
     ELSE Some(CHOOSE d \in dates : \A e \in dates : d <= e)

\* schedule.weekday[layerKey] || schedule.weekend[layerKey]
LayerOf(schedule, layerKey) ==
  LET wd == {e \in {LayersOf(schedule, "weekday")[i] :
                      i \in DOMAIN LayersOf(schedule, "weekday")} : e.key = layerKey}
      we == {e \in {LayersOf(schedule, "weekend")[i] :
                      i \in DOMAIN LayersOf(schedule, "weekend")} : e.key = layerKey}
  IN IF wd # {} THEN Some(The(wd).config)
     ELSE IF we # {} THEN Some(The(we).config) ELSE None

\* new Date("YYYY-MM-DD"): midnight UTC of the date
DateInstant(date) == date * SlotsPerDay

\* VersionedScheduleService.calculateAssignment; {} for null
calculateAssignment(schedule, date, layerKey, overrides, tz) ==
  IF schedule = NullDoc \/ LayerOf(schedule, layerKey) = None THEN None
  ELSE Some(calculateCurrentAssignment(The(LayerOf(schedule, layerKey)), DateInstant(date),
                                       overrides, layerKey, tz))

\* a % n of JavaScript: the result has the sign of the dividend
JsMod(a, n) == IF a >= 0 THEN a % n ELSE 0 - ((0 - a) % n)

\* users[userIndex] of JavaScript: undefined outside the array
Undefined == "undefined"
JsIndex(users, userIndex) ==
  IF userIndex >= 0 /\ userIndex < Len(users) THEN users[userIndex + 1] ELSE Undefined

\* the rotation of VersionedScheduleService.calculateAssignment in the copy in
\* src/services: calendar days from the start instant to the target instant,
\* days_rotate || 1, no overrides
rotateSvc(layer, targetDate) ==
  LET daysDiffSvc == (targetDate - StartInstant(layer)) \div SlotsPerDay
      rotationDays == IF layer.days_rotate = 0 THEN 1 ELSE layer.days_rotate
      userIndex == JsMod(daysDiffSvc \div rotationDays, Len(layer.users))
  IN Assignment(JsIndex(layer.users, userIndex), FALSE)

\* VersionedScheduleService.calculateAssignment of the copy in src/services;
\* {} for null
calculateAssignmentSvc(schedule, date, layerKey) ==
  IF schedule = NullDoc \/ LayerOf(schedule, layerKey) = None THEN None
  ELSE IF Len(The(LayerOf(schedule, layerKey)).users) = 0 THEN None
  ELSE Some(rotateSvc(The(LayerOf(schedule, layerKey)), DateInstant(date)))

\* ------------------------------------------------------------------------
\* Ledger actions
\* ------------------------------------------------------------------------
LedgerLayer(days_rotate, users) == Layer("weekday", 1, 0, 1, 0, days_rotate, users)

\* a schedule, the same with layer1's members edited, and one with another
\* rotation period and a further top-level key
LedgerDocA == [weekday |-> <<Entry("layer1", LedgerLayer(1, <<"dinesh", "melannie">>))>>,
               weekend |-> <<>>]
LedgerDocB == [weekday |-> <<Entry("layer1", LedgerLayer(1, <<"melannie", "dinesh">>))>>,
               weekend |-> <<>>]
LedgerDocC == [weekday |-> <<Entry("layer1", LedgerLayer(2, <<"gaurav", "dinesh">>))>>,
               weekend |-> <<>>,
               team |-> "sre"]
LedgerDocs == {LedgerDocA, LedgerDocB, LedgerDocC}

\* lookups ask for the layers' start date; version queries for any date
LookupDates == {1}
QueryDates == 0..LedgerDays
\* the clients that may each have one getAssignmentForDate call in flight
Callers == {"first", "second"}
\* an override set naming carol for layer1 on the start date
LedgerOverrides == {Overrides(<<1, "layer1">> :> "carol", <<>>)}
\* the documents the schedule file alternates between while lookups run
LookupDocs == {LedgerDocA, LedgerDocB}
LookupLayers == {"layer1"}

\* the locals of a getAssignmentForDate call between its awaits
\* (late: the call began after a record of its date and layer was stored)
Call(date, layerKey, pc, assignment, version, late) ==
  [date |-> date, layerKey |-> layerKey, pc |-> pc, assignment |-> assignment,
   version |-> version, late |-> late]

InFlight == SumCounts(lookups, DOMAIN lookups)

\* what getAssignmentForDate returns
LookupResponse(date, layerKey, person, isHistorical, versionId, late) ==
  [op |-> "lookup", date |-> date, layerKey |-> layerKey, person |-> person,
   isHistorical |-> isHistorical, versionId |-> versionId, late |-> late]

LedgerInit ==
  /\ now = 0
  /\ serverTz = 0
  /\ minutesBefore = 0
  /\ scheduleFile = LedgerDocA
  /\ scheduleData = NullDoc
  /\ isRunning = FALSE
  /\ activeTimers = {}
  /\ liveTimers = EmptyBag
  /\ intervals = {}
  /\ checkInterval = 0
  /\ ticked = {}
  /\ pendingStarts = 0
  /\ starts = 0
  /\ sent = EmptyBag
  /\ runningSince = None
  /\ firstStart = None
  /\ AssignIdle
  /\ LedgerIdle

\* a start of the server process: the constructor, then initialize():
\* loadCurrentSchedule and checkForScheduleChanges
Initialize ==
  \E latest \in getScheduleForDate(versions, Today) :
    LET earliest == getEarliestEffectiveDate(loadScheduleData)
        effective == IF latest # None \/ earliest = None THEN Today ELSE The(earliest)
        create == \/ latest = None
                  \/ hashSchedule(loadScheduleData) # hashSchedule(The(latest).schedule_data)
    IN /\ create => Len(versions) < MaxVersions
       /\ currentSchedule' = loadScheduleData
       /\ versions' = IF create
                        THEN createScheduleVersion(versions, loadScheduleData, effective)
                        ELSE versions
       /\ currentVersion' =
            IF create THEN Some(CreatedVersion(versions, effective))
            ELSE Some([id |-> The(latest).id, effectiveDate |-> The(latest).effective_date])
       /\ lookups' = EmptyBag
       /\ lastResponse' = [op |-> "check", live |-> loadScheduleData, latest |-> latest,
                           created |-> create]
       /\ UNCHANGED <<assignments, monthly, firstRecorded>>
       /\ UNCHANGED <<now, scheduleFile, schedRest, assignVars>>

\* the schedule file is edited
EditSchedule(doc) ==
  /\ doc # scheduleFile
  /\ scheduleFile' = doc
  /\ lastResponse' = NoResponse
  /\ UNCHANGED <<currentSchedule, currentVersion, versions, assignments, monthly, lookups,
                 firstRecorded>>
  /\ UNCHANGED <<now, schedRest, assignVars>>

\* createNewVersion(): reload, then a version effective today
CreateNewVersion ==
  /\ Len(versions) < MaxVersions
  /\ currentSchedule' = loadScheduleData
  /\ versions' = createScheduleVersion(versions, loadScheduleData, Today)
  /\ currentVersion' = Some(CreatedVersion(versions, Today))
  /\ lastResponse' = NoResponse
  /\ UNCHANGED <<assignments, monthly, lookups, firstRecorded>>
  /\ UNCHANGED <<now, scheduleFile, schedRest, assignVars>>

\* storeOverrides(month, overrides)
StoreOverrides(month, overrides) ==
  /\ Len(monthly) < MaxOverrideRows
  /\ monthly' = storeMonthlyOverrides(monthly, month, overrides)
  /\ lastResponse' = NoResponse
  /\ UNCHANGED <<currentSchedule, currentVersion, versions, assignments, lookups,
                 firstRecorded>>
  /\ UNCHANGED <<now, scheduleFile, schedRest, assignVars>>

\* getAssignmentForDate, to the answer of getHistoricalAssignment
LookupBegin(date, layerKey) ==
  /\ \E historical \in getHistoricalAssignment(assignments, date, layerKey) :
       IF historical # None
         THEN /\ lastResponse' = LookupResponse(date, layerKey, Some(The(historical).person),
                                                TRUE, Some(The(historical).version_id),
                                                <<date, layerKey>> \in DOMAIN firstRecorded)
              /\ UNCHANGED lookups
         ELSE /\ InFlight < Cardinality(Callers)
              /\ lookups' = BagAdd(lookups, Call(date, layerKey, "resolve", None, None,
                                                 <<date, layerKey>> \in DOMAIN firstRecorded))
              /\ lastResponse' = NoResponse
  /\ UNCHANGED <<currentSchedule, currentVersion, versions, assignments, monthly,
                 firstRecorded>>
  /\ UNCHANGED <<now, scheduleFile, schedRest, assignVars>>

\* getAssignmentForDate: getScheduleForDate (with its fallback to the current
\* schedule), getOverrides and calculateAssignment
LookupCompute(call) ==
  /\ BagCount(lookups, call) > 0
  /\ call.pc = "resolve"
  /\ \E historicalVersion \in getScheduleForDate(versions, call.date) :
     \E overrides \in getOverrides(monthly, MonthOf(call.date)) :
       LET schedule == IF historicalVersion # None THEN The(historicalVersion).schedule_data
                       ELSE currentSchedule
           version == IF historicalVersion # None THEN Some(The(historicalVersion).id)
                      ELSE {v.id : v \in currentVersion}
           assignment == calculateAssignment(schedule, call.date, call.layerKey, overrides,
                                             serverTz)
       IN lookups' = BagAdd(BagRemove(lookups, call),
                            Call(call.date, call.layerKey, "store", assignment, version,
                                 call.late))
  /\ lastResponse' = NoResponse
  /\ UNCHANGED <<currentSchedule, currentVersion, versions, assignments, monthly,
                 firstRecorded>>
  /\ UNCHANGED <<now, scheduleFile, schedRest, assignVars>>

\* the same step of the copy in src/services: getScheduleForDate and
\* calculateAssignment, no overrides read
LookupComputeSvc(call) ==
  /\ BagCount(lookups, call) > 0
  /\ call.pc = "resolve"
  /\ \E historicalVersion \in getScheduleForDate(versions, call.date) :
       LET schedule == IF historicalVersion # None THEN The(historicalVersion).schedule_data
                       ELSE currentSchedule
           version == IF historicalVersion # None THEN Some(The(historicalVersion).id)
                      ELSE {v.id : v \in currentVersion}
           assignment == calculateAssignmentSvc(schedule, call.date, call.layerKey)
       IN lookups' = BagAdd(BagRemove(lookups, call),
                            Call(call.date, call.layerKey, "store", assignment, version,
                                 call.late))
  /\ lastResponse' = NoResponse
  /\ UNCHANGED <<currentSchedule, currentVersion, versions, assignments, monthly,
                 firstRecorded>>
  /\ UNCHANGED <<now, scheduleFile, schedRest, assignVars>>

\* getAssignmentForDate: storeHistoricalAssignment when there is an assignment
\* and a version, then the return
LookupFinish(call) ==
  /\ BagCount(lookups, call) > 0
  /\ call.pc = "store"
  /\ lookups' = BagRemove(lookups, call)
  /\ IF call.assignment # None /\ call.version # None
       THEN /\ assignments' =
                 storeHistoricalAssignment(assignments, call.date, call.layerKey,
                                           The(call.assignment).person, The(call.version)).rows
            /\ firstRecorded' =
                 IF <<call.date, call.layerKey>> \in DOMAIN firstRecorded THEN firstRecorded
                 ELSE firstRecorded @@
                      (<<call.date, call.layerKey>> :>
                         [person |-> The(call.assignment).person,
                          version_id |-> The(call.version)])
       ELSE UNCHANGED <<assignments, firstRecorded>>
  /\ lastResponse' = LookupResponse(call.date, call.layerKey,
                                    {a.person : a \in call.assignment}, FALSE, call.version,
                                    call.late)
  /\ UNCHANGED <<currentSchedule, currentVersion, versions, monthly>>
  /\ UNCHANGED <<now, scheduleFile, schedRest, assignVars>>

\* HistoryService.getScheduleForDate(date)
VersionFor(date) ==
  /\ \E row \in getScheduleForDate(versions, date) :
       lastResponse' = [op |-> "versionFor", date |-> date, row |-> row]
  /\ UNCHANGED <<currentSchedule, currentVersion, versions, assignments, monthly, lookups,
                 firstRecorded>>
  /\ UNCHANGED <<now, scheduleFile, schedRest, assignVars>>

\* a day passes
NextDay ==
  /\ Today < LedgerDays
  /\ now' = now + SlotsPerDay
  /\ lastResponse' = NoResponse
  /\ UNCHANGED <<currentSchedule, currentVersion, versions, assignments, monthly, lookups,
                 firstRecorded>>
  /\ UNCHANGED <<scheduleFile, schedRest, assignVars>>

LedgerNext ==
  \/ Initialize
  \/ \E doc \in LookupDocs : EditSchedule(doc)
  \/ CreateNewVersion
  \/ \E date \in LookupDates, overrides \in LedgerOverrides :
       StoreOverrides(MonthOf(date), overrides)
  \/ \E date \in LookupDates, layerKey \in LookupLayers : LookupBegin(date, layerKey)
  \/ \E call \in DOMAIN lookups : LookupCompute(call)
  \/ \E call \in DOMAIN lookups : LookupFinish(call)
  \/ NextDay

SpecLedger == LedgerInit /\ [][LedgerNext]_vars

\* lookups of either copy of the service, with overrides stored, schedule
\* edits and restarts in between
LookupNext ==
  \/ Initialize
  \/ \E doc \in LookupDocs : EditSchedule(doc)
  \/ \E date \in LookupDates, overrides \in LedgerOverrides :
       StoreOverrides(MonthOf(date), overrides)
  \/ \E date \in LookupDates, layerKey \in LookupLayers : LookupBegin(date, layerKey)
  \/ \E call \in DOMAIN lookups : LookupCompute(call)
  \/ \E call \in DOMAIN lookups : LookupComputeSvc(call)
  \/ \E call \in DOMAIN lookups : LookupFinish(call)
  \/ NextDay

SpecLookup == LedgerInit /\ [][LookupNext]_vars

\* the version relation alone: starts of the server, edits of the schedule
\* file, manual versions and queries
VersionsNext ==
  \/ Initialize
  \/ \E doc \in LedgerDocs : EditSchedule(doc)
  \/ CreateNewVersion
  \/ \E date \in QueryDates : VersionFor(date)
  \/ NextDay

SpecVersions == LedgerInit /\ [][VersionsNext]_vars

\* ------------------------------------------------------------------------
\* HistoryService.storeHistoricalAssignment and getHistoricalAssignment called
\* directly
\* ------------------------------------------------------------------------
RecordDates == {0, 1}
RecordPersons == {"dinesh", "melannie"}
RecordVersions == {1, 2}

RecordAssignment(date, layerKey, person, versionId) ==
  LET res == storeHistoricalAssignment(assignments, date, layerKey, person, versionId)
  IN /\ assignments' = res.rows
     /\ firstRecorded' =
          IF <<date, layerKey>> \in DOMAIN firstRecorded THEN firstRecorded
          ELSE firstRecorded @@
               (<<date, layerKey>> :> [person |-> person, version_id |-> versionId])
     /\ lastResponse' = [op |-> "record", date |-> date, layerKey |-> layerKey,
                         person |-> person, versionId |-> versionId,
                         changes |-> res.changes, resolved |-> res.resolved,
                         again |-> <<date, layerKey>> \in DOMAIN firstRecorded]
     /\ UNCHANGED <<currentSchedule, currentVersion, versions, monthly, lookups>>
     /\ UNCHANGED <<now, scheduleFile, schedRest, assignVars>>

ReadAssignment(date, layerKey) ==
  /\ \E row \in getHistoricalAssignment(assignments, date, layerKey) :
       lastResponse' = [op |-> "historical", date |-> date, layerKey |-> layerKey,
                        row |-> row]
  /\ UNCHANGED <<currentSchedule, currentVersion, versions, assignments, monthly, lookups,
                 firstRecorded>>
  /\ UNCHANGED <<now, scheduleFile, schedRest, assignVars>>

HistoryNext ==
  \/ \E date \in RecordDates, layerKey \in LookupLayers, person \in RecordPersons,
        versionId \in RecordVersions : RecordAssignment(date, layerKey, person, versionId)
  \/ \E date \in RecordDates, layerKey \in LookupLayers : ReadAssignment(date, layerKey)

SpecHistory == LedgerInit /\ [][HistoryNext]_vars

\* ------------------------------------------------------------------------
\* HistoryService.storeMonthlyOverrides and getOverrides called directly,
\* with version creations in between
\* ------------------------------------------------------------------------
MaxOverrideCalls == 2
OverrideMonths == {0, 1}
OverrideSets == {Overrides(<<1, "layer1">> :> "carol", <<>>),
                 Overrides(<<1, "layer1">> :> "gaurav", <<>>)}

StoreMonthlyOverrides(month, overrideData) ==
  /\ Len(monthly) < MaxOverrideCalls
  /\ monthly' = storeMonthlyOverrides(monthly, month, overrideData)
  /\ lastResponse' = NoResponse
  /\ UNCHANGED <<currentSchedule, currentVersion, versions, assignments, lookups,
                 firstRecorded>>
  /\ UNCHANGED <<now, scheduleFile, schedRest, assignVars>>

\* getOverrides(month)
ReadOverrides(month) ==
  /\ \E data \in getOverrides(monthly, month) :
       lastResponse' = [op |-> "overrides", month |-> month, data |-> data]
  /\ UNCHANGED <<currentSchedule, currentVersion, versions, assignments, monthly, lookups,
                 firstRecorded>>
  /\ UNCHANGED <<now, scheduleFile, schedRest, assignVars>>

OverridesNext ==
  \/ \E month \in OverrideMonths, overrideData \in OverrideSets :
       StoreMonthlyOverrides(month, overrideData)
  \/ \E month \in OverrideMonths : ReadOverrides(month)
  \/ Initialize
  \/ CreateNewVersion
  \/ NextDay

SpecOverrides == LedgerInit /\ [][OverridesNext]_vars

\* ------------------------------------------------------------------------
\* HistoryService.cleanupOldData / VersionedScheduleService.cleanup, with the
\* operations that write the three tables
\* ------------------------------------------------------------------------
RetentionDays == 3
\* the monthsToKeep a caller passes
RetentionChoices == {0, 1}
RetentionMonths == {MonthOf(d) : d \in 0..RetentionDays}

\* cutoffDate.setMonth(cutoffDate.getMonth() - monthsToKeep): the same day of
\* the month, monthsToKeep months earlier; toISOString().substring(0, 10)
CutoffDay(today, monthsToKeep) == today - monthsToKeep * DaysPerMonth
\* toISOString().substring(0, 7)
CutoffMonth(today, monthsToKeep) == MonthOf(CutoffDay(today, monthsToKeep))

Tables(hist, ovr, vs) == [assignments |-> hist, monthly |-> ovr, versions |-> vs]

\* mutant: the version rows before the cutoff are deleted as well
cleanupOldData_DeleteVersions(hist, ovr, vs, today, monthsToKeep) ==
  LET cutoffDay == CutoffDay(today, monthsToKeep)
      cutoffMonth == CutoffMonth(today, monthsToKeep)
  IN Tables(SelectSeq(hist, LAMBDA r : ~(r.date < cutoffDay)),
            SelectSeq(ovr, LAMBDA r : ~(r.month < cutoffMonth)),
            SelectSeq(vs, LAMBDA v : ~(v.effective_date < cutoffDay)))

\* mutant: the assignments are cut at the month of the cutoff, not its day
cleanupOldData_MonthGranularity(hist, ovr, vs, today, monthsToKeep) ==
  LET cutoffDay == CutoffDay(today, monthsToKeep)
      cutoffMonth == CutoffMonth(today, monthsToKeep)
  IN Tables(SelectSeq(hist, LAMBDA r : ~(MonthOf(r.date) < cutoffMonth)),
            SelectSeq(ovr, LAMBDA r : ~(r.month < cutoffMonth)),
            [i \in 1..Len(vs) |->
               IF vs[i].effective_date < cutoffDay THEN [vs[i] EXCEPT !.is_active = FALSE]
               ELSE vs[i]])

\* DELETE FROM historical_assignments WHERE date < cutoffDay;
\* DELETE FROM monthly_overrides WHERE month < cutoffMonth;
\* UPDATE schedule_versions SET is_active = 0 WHERE effective_date < cutoffDay
cleanupOldData(hist, ovr, vs, today, monthsToKeep) ==
  LET cutoffDay == CutoffDay(today, monthsToKeep)
      cutoffMonth == CutoffMonth(today, monthsToKeep)
  IN Tables(SelectSeq(hist, LAMBDA r : ~(r.date < cutoffDay)),
            SelectSeq(ovr, LAMBDA r : ~(r.month < cutoffMonth)),
            [i \in 1..Len(vs) |->
               IF vs[i].effective_date < cutoffDay THEN [vs[i] EXCEPT !.is_active = FALSE]
               ELSE vs[i]])

\* cleanup(monthsToKeep); the response is what the three statements log: the
\* number of rows each of them changed (this.changes)
Cleanup(monthsToKeep) ==
  LET res == cleanupOldData(assignments, monthly, versions, Today, monthsToKeep)
  IN /\ assignments' = res.assignments
     /\ monthly' = res.monthly
     /\ versions' = res.versions
     /\ lastResponse' =
          [op |-> "cleanup", monthsToKeep |-> monthsToKeep,
           assignmentsCleaned |-> Len(assignments) - Len(res.assignments),
           overridesCleaned |-> Len(monthly) - Len(res.monthly),
           versionsMarked |->
             Cardinality({i \in 1..Len(versions) :
                            versions[i].effective_date < CutoffDay(Today, monthsToKeep)})]
     /\ UNCHANGED <<currentSchedule, currentVersion, lookups, firstRecorded>>
     /\ UNCHANGED <<now, scheduleFile, schedRest, assignVars>>

\* a day passes, over the longer range retention needs
LaterDay ==
  /\ Today < RetentionDays
  /\ now' = now + SlotsPerDay
  /\ lastResponse' = NoResponse
  /\ UNCHANGED <<currentSchedule, currentVersion, versions, assignments, monthly, lookups,
                 firstRecorded>>
  /\ UNCHANGED <<scheduleFile, schedRest, assignVars>>

RetentionNext ==
  \/ Initialize
  \/ CreateNewVersion
  \/ \E date \in RecordDates, layerKey \in LookupLayers :
       RecordAssignment(date, layerKey, "dinesh", 1)
  \/ \E month \in RetentionMonths, overrides \in LedgerOverrides :
       StoreOverrides(month, overrides)
  \/ \E monthsToKeep \in RetentionChoices : Cleanup(monthsToKeep)
  \/ LaterDay

SpecRetention == LedgerInit /\ [][RetentionNext]_vars

\* lookups of a past date with the versions created, the schedule file edited
\* and the tables cleaned in between
\* the monthsToKeep of a cleanup that keeps the current month and the one before
KeptMonths == {1}
FrozenNext ==
  \/ Initialize
  \/ \E doc \in LookupDocs : EditSchedule(doc)
  \/ CreateNewVersion
  \/ \E monthsToKeep \in KeptMonths : Cleanup(monthsToKeep)
  \/ \E date \in LookupDates, layerKey \in LookupLayers : LookupBegin(date, layerKey)
  \/ \E call \in DOMAIN lookups : LookupCompute(call)
  \/ \E call \in DOMAIN lookups : LookupComputeSvc(call)
  \/ \E call \in DOMAIN lookups : LookupFinish(call)
  \/ LaterDay

SpecFrozen == LedgerInit /\ [][FrozenNext]_vars

\* ------------------------------------------------------------------------
\* The timer callback with the Slack call observed:
\* sendShiftNotification, SlackNotificationService.sendShiftStartNotification
\* ------------------------------------------------------------------------
\* a schedule one of whose layers has no members
SchedDocE ==
  [weekday |-> <<Entry("layer1", WeekdayLayer(0, 2, <<>>)),
                 Entry("layer4", WeekdayLayer(2, 0, <<"michael">>))>>,
   weekend |-> <<>>]

DispatchDocs == {SchedDocA, SchedDocE}

\* what the call of the Slack API does: answers ok, answers ok: false, throws
\* (fetch rejects, or anything before it throws), or never settles
SinkOutcomes == {"ok", "rejected", "threw", "timeout"}

\* loadOverrides() with no overrides file
loadOverrides == NoOverrides

\* shiftInfo.engineerName: calculateCurrentAssignment(layerConfig, shiftTime,
\* overrides, layerKey).person
engineerName(doc, key, tz) ==
  calculateCurrentAssignment(The(LayerOf(doc, key[1])), key[2], loadOverrides, key[1],
                             tz).person

\* mutant: the callback leaves the timer in place unless the sink answered ok
afterCallback_KeepOnFailure(st, key, outcome) ==
  IF outcome = "ok" THEN TimerState(st.active \ {key}, BagRemove(st.live, key))
  ELSE st

\* the timer set after the callback of `key`: the handle is spent and
\* activeTimers.delete(timerKey) runs as soon as sendShiftNotification has
\* returned its promise, whatever the sink does with the call
afterCallback(st, key, outcome) ==
  TimerState(st.active \ {key}, BagRemove(st.live, key))

\* the setTimeout callback of a timer of `key`, with the sink's outcome
Dispatch(key, outcome) ==
  /\ BagCount(liveTimers, key) > 0
  /\ Due(key)
  /\ LET st == afterCallback(TimerState(activeTimers, liveTimers), key, outcome)
     IN /\ activeTimers' = st.active
        /\ liveTimers' = st.live
  /\ sent' = BagAdd(sent, key)
  /\ lastResponse' = [op |-> "dispatch", key |-> key, outcome |-> outcome,
                      engineerName |-> engineerName(scheduleData, key, serverTz)]
  /\ UNCHANGED <<now, serverTz, minutesBefore, scheduleFile, scheduleData, isRunning,
                 intervals, checkInterval, ticked, pendingStarts, starts, runningSince,
                 firstStart>>
  /\ UNCHANGED <<currentSchedule, currentVersion, versions, assignments, monthly, lookups,
                 firstRecorded>>
  /\ UNCHANGED assignVars

\* minutesBefore as configured (config/slack.js)
DispatchInit ==
  /\ now = 0
  /\ serverTz = 0
  /\ minutesBefore = 0
  /\ scheduleFile \in DispatchDocs
  /\ scheduleData = NullDoc
  /\ isRunning = FALSE
  /\ activeTimers = {}
  /\ liveTimers = EmptyBag
  /\ intervals = {}
  /\ checkInterval = 0
  /\ ticked = {}
  /\ pendingStarts = 0
  /\ starts = 0
  /\ sent = EmptyBag
  /\ runningSince = None
  /\ firstStart = None
  /\ AssignIdle
  /\ LedgerIdle

DispatchNext ==
  \/ FirstStart
  \/ \E i \in intervals : Tick(i)
  \/ \E key \in DOMAIN liveTimers, outcome \in SinkOutcomes : Dispatch(key, outcome)
  \/ Advance

SpecDispatch == DispatchInit /\ [][DispatchNext]_vars

\* ------------------------------------------------------------------------
\* The scheduler and its schedule source: the file may be edited, removed or
\* broken while the scheduler is stopped or running
\* ------------------------------------------------------------------------
SourceStates == SchedDocs \cup {FileMissing, FileCorrupt}

\* the schedule file is edited, removed or broken
ChangeFile(file) ==
  /\ file # scheduleFile
  /\ scheduleFile' = file
  /\ UNCHANGED <<now, schedRest, assignVars, ledgerVars>>

SourceInit ==
  /\ now = 0
  /\ serverTz = 0
  /\ minutesBefore = 0
  /\ scheduleFile \in SourceStates
  /\ scheduleData = NullDoc
  /\ isRunning = FALSE
  /\ activeTimers = {}
  /\ liveTimers = EmptyBag
  /\ intervals = {}
  /\ checkInterval = 0
  /\ ticked = {}
  /\ pendingStarts = 0
  /\ starts = 0
  /\ sent = EmptyBag
  /\ runningSince = None
  /\ firstStart = None
  /\ AssignIdle
  /\ LedgerIdle

SourceNext ==
  \/ StartBegin
  \/ StartFinish
  \/ Stop
  \/ \E i \in intervals : Tick(i)
  \/ \E key \in DOMAIN liveTimers : Fire(key)
  \/ Advance
  \/ \E file \in SourceStates : ChangeFile(file)

SpecSource == SourceInit /\ [][SourceNext]_vars

\* the same with the event loop's guarantees: a due timer callback runs, the
\* interval callback runs in every slot, and time goes on
SpecSourceLive ==
  /\ SourceInit
  /\ [][SourceNext]_vars
  /\ WF_vars(\E i \in intervals : Tick(i))
  /\ WF_vars(\E key \in DOMAIN liveTimers : Fire(key))
  /\ WF_vars(Advance)

\* ------------------------------------------------------------------------
\* "Who is active now": isCurrentTimeInShift, isCurrentTimeInWeekendShift and
\* getCurrentActiveLayer.  The repository holds two copies of the scheduler
\* class that differ in these three methods: the one with the time-zone aware
\* weekend window (part_004) and the one of src/services, whose definitions
\* carry the suffix Svc.
\* ------------------------------------------------------------------------
\* Offsets of the model: 0 is "+00:00", 1 is "+05:30", -1 is an offset the
\* timezoneMap has no entry for.  Entries naming zones with daylight saving
\* time are left out.
Kolkata == 1
timezoneMap == (0 :> 0) @@ (1 :> Kolkata)

\* getTimezoneFromOffset(offset) and the offset toLocaleString applies for the
\* zone it names: `timezoneMap[timezoneOffset] || 'Asia/Kolkata'`
getTimezoneFromOffset(tz) == IF tz \in DOMAIN timezoneMap THEN timezoneMap[tz] ELSE Kolkata

\* new Date(currentTime.toLocaleString('en-US', {timeZone})): the wall clock
\* of the layer's zone, in slots
InScheduleTz(currentTime, layer) == currentTime + getTimezoneFromOffset(layer.tz)

\* new Date(layerConfig.end_time).getHours() * 60 + getMinutes() in the offset tz
EndClockIn(layer, tz) == (layer.end_clock - layer.tz + tz) % SlotsPerDay

\* the comparison both copies end with
InClockWindow(current, start, end) ==
  IF end < start THEN current >= start \/ current < end
  ELSE current >= start /\ current < end

\* start and end HH:mm are parsed from the ISO strings
isCurrentTimeInShift(currentTime, layer, tz) ==
  InClockWindow(InScheduleTz(currentTime, layer) % SlotsPerDay,
                layer.start_clock, layer.end_clock)

\* start and end HH:mm are getHours()/getMinutes() of the Date objects
isCurrentTimeInShiftSvc(currentTime, layer, tz) ==
  InClockWindow(InScheduleTz(currentTime, layer) % SlotsPerDay,
                ClockOf(StartInstant(layer), tz), EndClockIn(layer, tz))

isCurrentTimeInWeekendShift(currentTime, layer, tz) ==
  LET nowTz == InScheduleTz(currentTime, layer)
      startMin == ClockOf(StartInstant(layer), tz)
      endMin == EndClockIn(layer, tz)
      date == nowTz \div SlotsPerDay
      day == DayOfWeek(date)
      curMin == nowTz % SlotsPerDay
      startDate == IF day = 6 THEN date ELSE IF day = 0 THEN date - 1 ELSE date - 2
      weekendStart == startDate * SlotsPerDay + startMin
      weekendEnd == (startDate + 2) * SlotsPerDay + endMin
  IN IF day \in 2..5 THEN FALSE
     ELSE IF day = 1 /\ curMin > endMin THEN FALSE
     ELSE nowTz >= weekendStart /\ nowTz <= weekendEnd

isCurrentTimeInWeekendShiftSvc(currentTime, layer, tz) ==
  LET scheduleTime == InScheduleTz(currentTime, layer)
      currentDay == DayOfWeek(scheduleTime \div SlotsPerDay)
      currentMinutes == scheduleTime % SlotsPerDay
      startMinutes == ClockOf(StartInstant(layer), tz)
      endMinutes == EndClockIn(layer, tz)
  IN IF currentDay # 0 /\ currentDay # 6 THEN FALSE
     ELSE currentMinutes >= startMinutes \/ currentMinutes <= endMinutes

\* the `for (... of Object.entries(...))` loops: the first entry whose test,
\* accepted[i], is true
FirstActive(entries, accepted) ==
  LET hits == {i \in 1..Len(entries) : accepted[i]}
  IN IF hits = {} THEN None
     ELSE Some(entries[CHOOSE i \in hits : \A j \in hits : i <= j])

getCurrentActiveLayer(doc, currentTime, tz) ==
  LET weekendLayers == LayersOf(doc, "weekend")
      layers == LayersOf(doc, "weekday")
      weekend == FirstActive(weekendLayers,
                   [i \in 1..Len(weekendLayers) |->
                      isCurrentTimeInWeekendShift(currentTime, weekendLayers[i].config, tz)])
  IN IF weekend # None THEN weekend
     ELSE FirstActive(layers,
            [i \in 1..Len(layers) |-> isCurrentTimeInShift(currentTime, layers[i].config, tz)])

getCurrentActiveLayerSvc(doc, currentTime, tz) ==
  LET weekendLayers == LayersOf(doc, "weekend")
      layers == LayersOf(doc, "weekday")
      isWeekend == getDay(currentTime, tz) = 0 \/ getDay(currentTime, tz) = 6
      weekend == IF isWeekend
                 THEN FirstActive(weekendLayers,
                        [i \in 1..Len(weekendLayers) |->
                           isCurrentTimeInWeekendShiftSvc(currentTime, weekendLayers[i].config, tz)])
                 ELSE None
  IN IF weekend # None THEN weekend
     ELSE FirstActive(layers,
            [i \in 1..Len(layers) |-> isCurrentTimeInShiftSvc(currentTime, layers[i].config, tz)])

\* ------------------------------------------------------------------------
\* The window tests and the occurrence finder applied to one layer
\* ------------------------------------------------------------------------
Clocks == 0..(SlotsPerDay - 1)

WindowLayers ==
  { Layer("weekday", 0, start_clock, end_clock, tz, 1, <<"A">>) :
      start_clock \in Clocks, end_clock \in Clocks, tz \in Offsets }
  \cup
  { Layer("weekend", 2, start_clock, end_clock, tz, 1, <<"A">>) :
      start_clock \in Clocks, end_clock \in Clocks, tz \in Offsets }

Active(b) == [active |-> b]
Occurrence(next) == [next |-> next]

WindowsInit ==
  /\ SchedIdle
  /\ LedgerIdle
  /\ serverTz \in Offsets
  /\ aLayer \in WindowLayers
  /\ aKey = "layer1"
  /\ aInstant \in 0..(AssignDays * SlotsPerDay)
  /\ aOverrides = NoOverrides
  /\ aCopy = "tz"
  /\ aResult = None

\* a call of `name` on the layer and the instant, returning `result`
Returns(name, result) ==
  /\ aResult = None
  /\ aCopy' = name
  /\ aResult' = Some(result)
  /\ UNCHANGED <<aLayer, aKey, aInstant, aOverrides, schedVars, ledgerVars>>

InShift ==
  /\ aLayer.type = "weekday"
  /\ Returns("isCurrentTimeInShift", Active(isCurrentTimeInShift(aInstant, aLayer, serverTz)))

InShiftSvc ==
  /\ aLayer.type = "weekday"
  /\ Returns("isCurrentTimeInShiftSvc",
             Active(isCurrentTimeInShiftSvc(aInstant, aLayer, serverTz)))

InWeekendShift ==
  /\ aLayer.type = "weekend"
  /\ Returns("isCurrentTimeInWeekendShift",
             Active(isCurrentTimeInWeekendShift(aInstant, aLayer, serverTz)))

InWeekendShiftSvc ==
  /\ aLayer.type = "weekend"
  /\ Returns("isCurrentTimeInWeekendShiftSvc",
             Active(isCurrentTimeInWeekendShiftSvc(aInstant, aLayer, serverTz)))

NextShiftOccurrence ==
  /\ aLayer.type = "weekday"
  /\ Returns("getNextShiftOccurrence",
             Occurrence(getNextShiftOccurrence(StartInstant(aLayer), aInstant, serverTz)))

NextWeekendOccurrence ==
  /\ aLayer.type = "weekend"
  /\ Returns("getNextWeekendOccurrence",
             Occurrence(getNextWeekendOccurrence(StartInstant(aLayer), aInstant, serverTz)))

WindowsNext ==
  \/ InShift
  \/ InShiftSvc
  \/ InWeekendShift
  \/ InWeekendShiftSvc
  \/ NextShiftOccurrence
  \/ NextWeekendOccurrence

SpecWindows == WindowsInit /\ [][WindowsNext]_vars

\* ------------------------------------------------------------------------
\* The rotation of the three calculators over layers of every kind and
\* instants before and after the start date
\* ------------------------------------------------------------------------
\* weekday layers starting on a Thursday, weekend layers on the Saturday after,
\* layers of another kind on the Friday; every clock window and offset
RotationLayers ==
  { Layer(kind[1], kind[2], start_clock, end_clock, tz, days_rotate, SubSeq(Roster, 1, n)) :
      kind \in {<<"weekday", 0>>, <<"weekend", 2>>, <<"daily", 1>>},
      start_clock \in Clocks, end_clock \in Clocks, tz \in Offsets,
      days_rotate \in 1..MaxPeriod, n \in 1..MaxMembers }

\* the instants reach into the second weekend after the start
RotationDays == 11

RotationInit ==
  /\ SchedIdle
  /\ LedgerIdle
  /\ serverTz \in Offsets
  /\ aLayer \in RotationLayers
  /\ aKey = "layer1"
  /\ aInstant \in (0 - SlotsPerDay)..(RotationDays * SlotsPerDay)
  /\ aOverrides = NoOverrides
  /\ aCopy = "tz"
  /\ aResult = None

\* a call of calculateAssignment of the copy in src/services with a Date
AssignSvc ==
  /\ aResult = None
  /\ Len(aLayer.users) > 0
  /\ aCopy' = "svc"
  /\ aResult' = Some(rotateSvc(aLayer, aInstant))
  /\ UNCHANGED <<aLayer, aKey, aInstant, aOverrides, schedVars, ledgerVars>>

RotationNext ==
  \/ AssignTz
  \/ AssignUtc
  \/ AssignSvc

SpecRotation == RotationInit /\ [][RotationNext]_vars

\* ------------------------------------------------------------------------
\* Hand-off list: getNextShiftsInSequence and calculateNextShiftStartTime
\* ------------------------------------------------------------------------
\* getLayerConfig(layerKey): the weekday group first, then the weekend group
getLayerConfig(doc, layerKey) ==
  LET weekday == {i \in 1..Len(LayersOf(doc, "weekday")) : doc.weekday[i].key = layerKey}
      weekend == {i \in 1..Len(LayersOf(doc, "weekend")) : doc.weekend[i].key = layerKey}
  IN IF weekday # {} THEN Some(doc.weekday[The(weekday)].config)
     ELSE IF weekend # {} THEN Some(doc.weekend[The(weekend)].config)
     ELSE None

\* for a weekday layer the UTC date of shiftDate with the UTC hours and
\* minutes of the configured start; for a weekend layer the server-local
\* date of shiftDate with the server-local hours and minutes of the start
calculateNextShiftStartTime(doc, layerKey, shiftDate, tz) ==
  LET layerConfig == getLayerConfig(doc, layerKey) IN
  IF layerConfig = None THEN shiftDate
  ELSE IF The(layerConfig).type = "weekend"
    THEN TodayAt(StartInstant(The(layerConfig)), shiftDate, tz)
  ELSE TodayAt(StartInstant(The(layerConfig)), shiftDate, 0)

\* const layerSequence = [layer1, layer2, layer3, layer4]
layerSequence == <<"layer1", "layer2", "layer3", "layer4">>

\* for (dayOffset = 0; dayOffset <= 3; dayOffset++)
DayOffsets == 0..3

Shift(person, layerKey, startTime) ==
  [person |-> person, layerKey |-> layerKey, startTime |-> startTime]

\* upcomingShifts before the sort, each entry with the position of its push
upcomingShifts(doc, currentTime, overrides, tz) ==
  { [ord |-> dayOffset * Len(layerSequence) + i,
     shift |-> Shift(calculateCurrentAssignment(
                       The(getLayerConfig(doc, layerSequence[i])),
                       calculateNextShiftStartTime(doc, layerSequence[i],
                                                   currentTime + dayOffset * SlotsPerDay, tz),
                       overrides, layerSequence[i], tz).person,
                     layerSequence[i],
                     calculateNextShiftStartTime(doc, layerSequence[i],
                                                 currentTime + dayOffset * SlotsPerDay, tz))] :
      <<dayOffset, i>> \in
        { x \in DayOffsets \X (1..Len(layerSequence)) :
            /\ getDay(currentTime + x[1] * SlotsPerDay, tz) \notin {0, 6}
            /\ \E j \in 1..Len(LayersOf(doc, "weekday")) : doc.weekday[j].key = layerSequence[x[2]]
            /\ calculateNextShiftStartTime(doc, layerSequence[x[2]],
                                           currentTime + x[1] * SlotsPerDay, tz) > currentTime } }

\* upcomingShifts.sort((a, b) => a.startTime - b.startTime), a stable sort,
\* cut after `count` entries
RECURSIVE FirstSorted(_, _)
FirstSorted(pushed, count) ==
  IF pushed = {} \/ count = 0 THEN <<>>
  ELSE LET first == CHOOSE a \in pushed :
                      \A b \in pushed :
                        \/ a.shift.startTime < b.shift.startTime
                        \/ a.shift.startTime = b.shift.startTime /\ a.ord <= b.ord
       IN <<first.shift>> \o FirstSorted(pushed \ {first}, count - 1)

getNextShiftsInSequence(doc, currentTime, overrides, count, tz) ==
  FirstSorted(upcomingShifts(doc, currentTime, overrides, tz), count)

\* ------------------------------------------------------------------------
\* The queries on a loaded schedule document
\* ------------------------------------------------------------------------
QueryLayer(type, start_day, start_clock, end_clock) ==
  Layer(type, start_day, start_clock, end_clock, Kolkata, 1, <<"dinesh", "melannie">>)

\* two weekday layers whose windows overlap in slot 1, and a weekend layer
QueryDocA ==
  [weekday |-> <<Entry("layer1", QueryLayer("weekday", 0, 0, 2)),
                 Entry("layer2", QueryLayer("weekday", 0, 1, 0))>>,
   weekend |-> <<Entry("full_weekend", QueryLayer("weekend", 2, 1, 1))>>]

\* the same weekday layers declared in the other order, no weekend layer
QueryDocB ==
  [weekday |-> <<Entry("layer2", QueryLayer("weekday", 0, 1, 0)),
                 Entry("layer1", QueryLayer("weekday", 0, 0, 2))>>,
   weekend |-> <<>>]

\* a weekday layer under a key of its own, and part of the day uncovered
QueryDocC ==
  [weekday |-> <<Entry("layer1", QueryLayer("weekday", 0, 0, 1)),
                 Entry("night", QueryLayer("weekday", 0, 2, 0))>>,
   weekend |-> <<Entry("full_weekend", QueryLayer("weekend", 2, 1, 1))>>]

QueryDocs == {QueryDocA, QueryDocB, QueryDocC}

\* the `count` argument
Counts == 1..3

ActiveLayer(entry) == [layer |-> entry]
NextShifts(count, list) == [count |-> count, list |-> list]

QueryInit ==
  /\ now = 0
  /\ serverTz \in Offsets
  /\ minutesBefore = 0
  /\ scheduleFile \in QueryDocs
  /\ scheduleData = scheduleFile
  /\ isRunning = FALSE
  /\ activeTimers = {}
  /\ liveTimers = EmptyBag
  /\ intervals = {}
  /\ checkInterval = 0
  /\ ticked = {}
  /\ pendingStarts = 0
  /\ starts = 0
  /\ sent = EmptyBag
  /\ runningSince = None
  /\ firstStart = None
  /\ AssignIdle
  /\ LedgerIdle

\* the `now` parameter of the request
AskAt(t) ==
  /\ aResult = None
  /\ aInstant = 0
  /\ t \in 1..(AssignDays * SlotsPerDay)
  /\ aInstant' = t
  /\ UNCHANGED <<aLayer, aKey, aOverrides, aCopy, aResult, schedVars, ledgerVars>>

\* the calls below read this.scheduleData, which start() has loaded
CurrentActiveLayer ==
  /\ scheduleData # NullDoc
  /\ Returns("getCurrentActiveLayer",
             ActiveLayer(getCurrentActiveLayer(scheduleData, aInstant, serverTz)))

CurrentActiveLayerSvc ==
  /\ scheduleData # NullDoc
  /\ Returns("getCurrentActiveLayerSvc",
             ActiveLayer(getCurrentActiveLayerSvc(scheduleData, aInstant, serverTz)))

NextShiftsInSequence(count) ==
  /\ scheduleData # NullDoc
  /\ Returns("getNextShiftsInSequence",
             NextShifts(count, getNextShiftsInSequence(scheduleData, aInstant, loadOverrides,
                                                       count, serverTz)))

QueryNext ==
  \/ \E t \in 1..(AssignDays * SlotsPerDay) : AskAt(t)
  \/ CurrentActiveLayer
  \/ CurrentActiveLayerSvc
  \/ \E count \in Counts : NextShiftsInSequence(count)

SpecQuery == QueryInit /\ [][QueryNext]_vars

\* ------------------------------------------------------------------------
\* Real-world occurrences of a layer, as the design defines them
\* ------------------------------------------------------------------------
\* notifications of layerKey whose shift time lies in [lo, hi)
SentIn(layerKey, lo, hi) ==
  SumCounts(sent, {k \in DOMAIN sent : k[1] = layerKey /\ lo <= k[2] /\ k[2] < hi})

Days == 0..HorizonDays

\* first instant of the server-local calendar day d
LocalDayStart(d) == d * SlotsPerDay - serverTz

LocalStartClock(layer) == ClockOf(StartInstant(layer), serverTz)
LocalEndClock(layer) == (LocalStartClock(layer) + (layer.end_clock - layer.start_clock)) % SlotsPerDay

\* a weekday layer starts on Monday to Friday, and on Saturday when its start
\* clock-hour is before 10:00
WeekdayOccurrenceDay(layer, d) ==
  \/ DayOfWeek(d) \in 1..5
  \/ DayOfWeek(d) = 6 /\ HourBefore10(LocalStartClock(layer))

OccurrenceInstant(layer, d) == LocalDayStart(d) + LocalStartClock(layer)

\* the weekend window that begins on the Saturday d: Saturday at the start
\* clock time to Monday at the end clock time
WeekendWindowEnd(layer, d) == LocalDayStart(d + 2) + LocalEndClock(layer)

\* C1: at most one ShiftTransition is emitted per real-world occurrence of a
\* layer: per daily shift start of a weekday layer, and per Saturday-to-Monday
\* window of a weekend layer.
C1_AtMostOnePerOccurrence ==
  /\ \A i \in 1..Len(scheduleFile.weekday) : \A d \in Days :
       SentIn(scheduleFile.weekday[i].key, LocalDayStart(d), LocalDayStart(d + 1)) <= 1
  /\ \A i \in 1..Len(scheduleFile.weekend) : \A d \in Days :
       DayOfWeek(d) = 6 =>
         SentIn(scheduleFile.weekend[i].key,
                OccurrenceInstant(scheduleFile.weekend[i].config, d),
                WeekendWindowEnd(scheduleFile.weekend[i].config, d)) <= 1

\* the part of C1 the code keeps: no timer key is ever notified twice
C1_AtMostOncePerKey == \A k \in DOMAIN sent : sent[k] <= 1

\* C2: while the scheduler runs continuously, every weekday-layer occurrence
\* and every weekend-layer Saturday start whose notification time comes after
\* the start of the scheduler has its notification fired once that time is past.
C2_EveryOccurrenceNotified ==
  (isRunning /\ runningSince # None) =>
    /\ \A i \in 1..Len(scheduleFile.weekday) : \A d \in Days :
         LET e == scheduleFile.weekday[i]
             o == OccurrenceInstant(e.config, d)
         IN (WeekdayOccurrenceDay(e.config, d)
             /\ The(runningSince) < o - minutesBefore /\ o - minutesBefore < now)
            => BagCount(sent, TimerKey(e.key, o)) >= 1
    /\ \A i \in 1..Len(scheduleFile.weekend) : \A d \in Days :
         LET e == scheduleFile.weekend[i]
             o == OccurrenceInstant(e.config, d)
         IN (DayOfWeek(d) = 6
             /\ The(runningSince) < o - minutesBefore /\ o - minutesBefore < now)
            => BagCount(sent, TimerKey(e.key, o)) >= 1

\* C2 without the one case the code loses: a Saturday occurrence of an
\* early-morning weekday layer when the scheduler was started on that Saturday
C2_ExceptSaturdayStart ==
  (isRunning /\ runningSince # None) =>
    /\ \A i \in 1..Len(scheduleFile.weekday) : \A d \in Days :
         LET e == scheduleFile.weekday[i]
             o == OccurrenceInstant(e.config, d)
         IN (WeekdayOccurrenceDay(e.config, d)
             /\ ~(DayOfWeek(d) = 6 /\ getDay(The(runningSince), serverTz) = 6)
             /\ The(runningSince) < o - minutesBefore /\ o - minutesBefore < now)
            => BagCount(sent, TimerKey(e.key, o)) >= 1
    /\ \A i \in 1..Len(scheduleFile.weekend) : \A d \in Days :
         LET e == scheduleFile.weekend[i]
             o == OccurrenceInstant(e.config, d)
         IN (DayOfWeek(d) = 6
             /\ The(runningSince) < o - minutesBefore /\ o - minutesBefore < now)
            => BagCount(sent, TimerKey(e.key, o)) >= 1

\* C3: per timer key the state machine is pending -> armed -> fired: at most
\* one timer is armed for a key at a time, a fired key stays fired and is never
\* armed again, and an evaluation (tick) never takes an armed key back.
C3_PendingArmedFired ==
  [][/\ \A k \in DOMAIN liveTimers' \cup DOMAIN sent' :
          BagCount(liveTimers', k) + BagCount(sent', k) <= 1
     /\ \A k \in DOMAIN sent : k \in DOMAIN sent' /\ k \notin DOMAIN liveTimers'
     /\ (ticked' # ticked /\ ticked \subseteq ticked')
          => \A k \in DOMAIN liveTimers : k \in DOMAIN liveTimers']_vars

\* a tick re-evaluates a weekend layer whose current occurrence has fired
\* already: the occurrence finder hands the fired key to the tick again
C3_Witness ==
  /\ scheduleData # NullDoc
  /\ ticked # {}
  /\ \E i \in 1..Len(scheduleData.weekend) :
       LET e == scheduleData.weekend[i]
           o == The(getNextWeekendOccurrence(StartInstant(e.config), now, serverTz))
       IN /\ TimerKey(e.key, o) \in DOMAIN sent
          /\ o - minutesBefore < now

\* ------------------------------------------------------------------------
\* Claims about the rotation calculator
\* ------------------------------------------------------------------------
\* the calendar date of the call's instant in the layer's own offset
AssignDate == DayNumber(aInstant, aLayer.tz)

\* what the called copy returns for the same call without any override
WithoutOverrides ==
  IF aCopy = "tz"
    THEN calculateCurrentAssignment(aLayer, aInstant, NoOverrides, aKey, serverTz)
    ELSE calculateCurrentAssignmentUtc(aLayer, aInstant, NoOverrides, aKey, serverTz)

\* C7: for a layer with members, when the override map has an entry for
\* (date of the instant in the layer's own offset, layerKey) the call returns
\* that person with isOverride = TRUE; and when the map has only structured
\* entries and none for that date and layer, the call returns what it returns
\* without overrides.
C7_OverridePrecedence ==
  (aResult # None /\ Len(aLayer.users) > 0) =>
    /\ <<AssignDate, aKey>> \in DOMAIN aOverrides.byDate
         => The(aResult) = Assignment(aOverrides.byDate[<<AssignDate, aKey>>], TRUE)
    /\ (aOverrides.legacy = <<>> /\ <<AssignDate, aKey>> \notin DOMAIN aOverrides.byDate)
         => The(aResult) = WithoutOverrides

\* C7 for the first copy alone (the date key taken in the layer's offset)
C7_FirstCopy == aCopy = "tz" => C7_OverridePrecedence

C7_FirstCopyWitness ==
  /\ aResult # None
  /\ aCopy = "tz"
  /\ <<AssignDate, aKey>> \in DOMAIN aOverrides.byDate
  /\ DayNumber(aInstant, 0) # AssignDate
  /\ The(aResult).isOverride

\* Mon-Fri days from the layer's start date to `day`, both included
WeekdaysFrom(layer, day) ==
  Cardinality({d \in layer.start_day..day : DayOfWeek(d) \in 1..5})

\* the day itself, or the Friday before a Saturday or Sunday
FridayOnOrBefore(day) ==
  IF DayOfWeek(day) = 6 THEN day - 1 ELSE IF DayOfWeek(day) = 0 THEN day - 2 ELSE day

\* C8: for a weekday layer with period p >= 1, members and no overrides, the
\* first copy returns members[floor((n-1)/p) mod len] on the n-th Mon-Fri day
\* from the start date inclusive (dates in the layer's offset), and on a
\* Saturday or Sunday the person of the preceding Friday.
C8_WeekdayRotation ==
  (/\ aResult # None
   /\ aCopy = "tz"
   /\ aLayer.type = "weekday"
   /\ aLayer.days_rotate >= 1
   /\ Len(aLayer.users) > 0
   /\ aOverrides = NoOverrides)
  => LET n == WeekdaysFrom(aLayer, FridayOnOrBefore(AssignDate))
     IN n >= 1 =>
          The(aResult) =
            Assignment(aLayer.users[(((n - 1) \div aLayer.days_rotate) % Len(aLayer.users)) + 1],
                       FALSE)

\* the example of C8: start Thursday (day 0), p = 2, members A B C D, asked on
\* the Monday after (day 4): B
C8_Witness ==
  /\ aResult # None
  /\ aCopy = "tz"
  /\ aLayer.type = "weekday"
  /\ aLayer.start_day = 0
  /\ aLayer.days_rotate = 2
  /\ aLayer.users = <<"A", "B", "C", "D">>
  /\ aOverrides = NoOverrides
  /\ AssignDate = 4
  /\ The(aResult).person = "B"

\* C8 on a Saturday: the person of the Friday before, after the rotation moved
C8_SaturdayWitness ==
  /\ C8_WeekdayRotation
  /\ aResult # None
  /\ aCopy = "tz"
  /\ aLayer.type = "weekday"
  /\ aLayer.days_rotate = 1
  /\ aOverrides = NoOverrides
  /\ DayOfWeek(AssignDate) = 6
  /\ The(aResult).person = "B"

\* ------------------------------------------------------------------------
\* Claims about the ledger
\* ------------------------------------------------------------------------
\* the persons a lookup of (date, layerKey) could compute in the current state
Computable(date, layerKey) ==
  {calculateAssignment(IF v # None THEN The(v).schedule_data ELSE currentSchedule,
                       date, layerKey, o, serverTz) :
     v \in getScheduleForDate(versions, date), o \in getOverrides(monthly, MonthOf(date))}

Canonical(schedule) ==
  [k \in DOMAIN schedule |->
     IF k \in Groups THEN {schedule[k][i] : i \in DOMAIN schedule[k]} ELSE schedule[k]]

\* C6: when a version is effective for today, change detection creates a new
\* version exactly when the live schedule document differs from that
\* version's document in content (any layer field), key order aside.
C6_VersionOnContentChange ==
  (lastResponse.op = "check" /\ lastResponse.latest # None) =>
    (lastResponse.created <=>
       Canonical(lastResponse.live) # Canonical(The(lastResponse.latest).schedule_data))

\* C6, one direction: change detection creates no version for an unchanged
\* document
C6_NoVersionWithoutChange ==
  (lastResponse.op = "check" /\ lastResponse.latest # None /\ lastResponse.created) =>
    Canonical(lastResponse.live) # Canonical(The(lastResponse.latest).schedule_data)

\* the stored versions effective on or before date
StoredUpTo(date) == {i \in 1..Len(versions) : versions[i].effective_date <= date}

\* C9: versionFor(date) returns, among the stored versions with
\* effectiveDate <= date, the one with the latest effectiveDate and, among
\* those of that effectiveDate, the one created last.
C9_LatestThenLastCreated ==
  lastResponse.op = "versionFor" =>
    LET q == StoredUpTo(lastResponse.date)
    IN IF q = {} THEN lastResponse.row = None
       ELSE lastResponse.row =
              Some(versions[CHOOSE i \in q : \A j \in q :
                              \/ versions[j].effective_date < versions[i].effective_date
                              \/ /\ versions[j].effective_date = versions[i].effective_date
                                 /\ j <= i])

\* C10: versionFor(D) never returns a version whose effectiveDate is later
\* than D, and returns none when no stored version has effectiveDate <= D.
C10_NeverFromTheFuture ==
  lastResponse.op = "versionFor" =>
    /\ \A r \in lastResponse.row :
         /\ r.effective_date <= lastResponse.date
         /\ \E i \in 1..Len(versions) : versions[i] = r
    /\ StoredUpTo(lastResponse.date) = {} => lastResponse.row = None

\* a query answered with an older version while a version effective later
\* than the date is stored
C10_Witness ==
  /\ lastResponse.op = "versionFor"
  /\ lastResponse.row # None
  /\ \E i \in 1..Len(versions) : versions[i].effective_date > lastResponse.date

\* a query answered with none while only later versions are stored
C10_NoneWitness ==
  /\ lastResponse.op = "versionFor"
  /\ lastResponse.row = None
  /\ versions # <<>>

\* ------------------------------------------------------------------------
\* Retention claims
\* ------------------------------------------------------------------------
Range(seq) == {seq[i] : i \in 1..Len(seq)}

\* C11: the version relation is append-only. Every step (a server start with
\* its change detection, createNewVersion, recordAssignment,
\* storeMonthlyOverrides, cleanup) keeps every existing version row at its
\* place with its id, document and effective date, and every row it adds has an
\* id strictly larger than all ids that existed before.
C11_VersionsAppendOnly ==
  [][/\ Len(versions') >= Len(versions)
     /\ \A i \in 1..Len(versions) :
          /\ versions'[i].id = versions[i].id
          /\ versions'[i].schedule_data = versions[i].schedule_data
          /\ versions'[i].effective_date = versions[i].effective_date
     /\ \A j \in (Len(versions) + 1)..Len(versions') :
          \A i \in 1..Len(versions) : versions'[j].id > versions[i].id]_vars

\* a cleanup has marked a version inactive and a version created later stands
\* after it
C11_Witness ==
  \E i, j \in 1..Len(versions) :
    /\ i < j
    /\ ~versions[i].is_active
    /\ versions[j].is_active
    /\ versions[i].id < versions[j].id
    /\ Len(assignments) > 0

\* C12: cleanup(monthsToKeep) removes exactly the historical assignments dated
\* before the cutoff day and the monthly override rows of months before the
\* cutoff month, marks exactly the versions effective before the cutoff day
\* inactive without deleting or otherwise changing them, and leaves every other
\* row as it was.
C12_CleanupFrame ==
  [][lastResponse'.op = "cleanup" =>
       LET cutoffDay == CutoffDay(Today, lastResponse'.monthsToKeep)
           cutoffMonth == MonthOf(cutoffDay)
           keptA == {i \in 1..Len(assignments) : assignments[i].date >= cutoffDay}
           keptM == {i \in 1..Len(monthly) : monthly[i].month >= cutoffMonth}
       IN /\ Len(assignments') = Cardinality(keptA)
          /\ Range(assignments') = {assignments[i] : i \in keptA}
          /\ Len(monthly') = Cardinality(keptM)
          /\ Range(monthly') = {monthly[i] : i \in keptM}
          /\ Len(versions') = Len(versions)
          /\ \A i \in 1..Len(versions) :
               /\ versions'[i].id = versions[i].id
               /\ versions'[i].schedule_data = versions[i].schedule_data
               /\ versions'[i].effective_date = versions[i].effective_date
               /\ versions'[i].is_active =
                    (versions[i].is_active /\ versions[i].effective_date >= cutoffDay)]_vars

\* a cleanup removed one assignment and kept another, and marked a version
\* inactive while another stayed active
C12_Witness ==
  /\ lastResponse.op = "cleanup"
  /\ lastResponse.assignmentsCleaned > 0
  /\ Len(assignments) > 0
  /\ lastResponse.versionsMarked > 0
  /\ \E i, j \in 1..Len(versions) : ~versions[i].is_active /\ versions[j].is_active

\* a cleanup removed the override row of a month before the cutoff month
C12_OverridesWitness ==
  /\ lastResponse.op = "cleanup"
  /\ lastResponse.overridesCleaned > 0

\* ------------------------------------------------------------------------
\* Scheduler claims: restart, load failure, empty layers, the sink, the ledger
\* ------------------------------------------------------------------------
\* the notification time of a timer key
NotificationTime(key) == key[2] - minutesBefore

\* C13: after a restart at instant t of a scheduler first started at t0 < t,
\* with the schedule unchanged, the occurrences notified after t are exactly
\* those a scheduler running continuously since t0 notifies after t, each of
\* them once (occurrences whose notification time lies before the current
\* slot are compared).
C13_RestartKeepsOccurrences ==
  (isRunning /\ firstStart # None /\ runningSince # None
   /\ The(firstStart) < The(runningSince)) =>
    LET t == The(runningSince)
        continuous == {k \in ContinuousFired(The(firstStart), now - 1) :
                         NotificationTime(k) > t}
        restarted == {k \in DOMAIN sent :
                        NotificationTime(k) > t /\ NotificationTime(k) < now}
    IN /\ restarted = continuous
       /\ \A k \in restarted : sent[k] = 1

\* what C13 keeps: the restart never notifies an occurrence the continuous
\* scheduler would not, and never twice
C13_NothingDuplicated ==
  (isRunning /\ firstStart # None /\ runningSince # None
   /\ The(firstStart) < The(runningSince)) =>
    LET t == The(runningSince)
        continuous == {k \in ContinuousFired(The(firstStart), now - 1) :
                         NotificationTime(k) > t}
        restarted == {k \in DOMAIN sent :
                        NotificationTime(k) > t /\ NotificationTime(k) < now}
    IN /\ restarted \subseteq continuous
       /\ \A k \in restarted : sent[k] = 1

\* the layers of the schedule file that have no members
EmptyLayerKeys ==
  {e.key : e \in {x \in Range(scheduleFile.weekday) \cup Range(scheduleFile.weekend) :
                    Len(x.config.users) = 0}}

\* C15: a layer whose member list is empty is skipped: no timer is armed for
\* it and no notification is emitted for it.
C15_EmptyLayerSkipped ==
  \A k \in activeTimers \cup DOMAIN liveTimers \cup DOMAIN sent : k[1] \notin EmptyLayerKeys

\* the part of C15 the code keeps: with a memberless layer in the schedule the
\* scheduler stays running and the other layers are armed and notified as in
\* the same schedule without that layer
C15_OtherLayersContinue ==
  [][(lastResponse'.op = "dispatch" /\ sent' # sent
      /\ lastResponse'.key[1] \in EmptyLayerKeys) =>
       /\ isRunning' = isRunning
       /\ intervals' = intervals
       /\ \A k \in activeTimers : k # lastResponse'.key => k \in activeTimers']_vars

\* C16: when the sink rejects, throws or never answers, there is no retry: the
\* timer of the occurrence is gone from the active set, the occurrence is
\* dispatched once and never again, and nothing else of the scheduler (other
\* timers, the tick interval, the running flag) is touched, so later ticks and
\* timers proceed.
C16_NoRetryAfterSinkFailure ==
  [][/\ \A k \in DOMAIN sent' : sent'[k] <= 1
     /\ (lastResponse'.op = "dispatch" /\ sent' # sent /\ lastResponse'.outcome # "ok") =>
          LET k == lastResponse'.key
          IN /\ k \notin activeTimers'
             /\ BagCount(liveTimers', k) = 0
             /\ activeTimers' = activeTimers \ {k}
             /\ \A k2 \in DOMAIN liveTimers \ {k} :
                  BagCount(liveTimers', k2) = BagCount(liveTimers, k2)
             /\ isRunning' = isRunning
             /\ intervals' = intervals]_vars

\* the last dispatch failed, time went on, and a tick after the failure armed
\* the timer of a later occurrence
C16_Witness ==
  /\ lastResponse.op = "dispatch"
  /\ lastResponse.outcome # "ok"
  /\ now > NotificationTime(lastResponse.key)
  /\ lastResponse.key \notin activeTimers
  /\ \E k2 \in activeTimers : k2[2] - SlotsPerDay > NotificationTime(lastResponse.key)

\* C17: once a notification fired for the occurrence of layer L starting on
\* date D (in the layer's offset), the ledger holds a historical assignment for
\* (D, L).
C17_FiredOccurrenceRecorded ==
  \A k \in DOMAIN sent :
    \E i \in 1..Len(assignments) :
      /\ assignments[i].layer_key = k[1]
      /\ assignments[i].date = DayNumber(k[2], The(LayerOf(scheduleFile, k[1])).tz)

\* C14: a start() that finds the schedule source missing or corrupt does not
\* substitute a schedule: with no document loaded before it leaves the
\* scheduler without a document and arms no timer, and with a document loaded
\* before it keeps that document in use.
C14_NoSubstituteSchedule ==
  [][(starts' = starts + 1 /\ Unavailable(scheduleFile)) =>
       /\ scheduleData' = scheduleData
       /\ scheduleData = NullDoc => activeTimers' = {}]_vars

\* the second half of C14 alone: a document loaded from the file is not
\* replaced when a later start() finds the file missing or corrupt
C14_LastLoadedKept ==
  [][(starts' = starts + 1 /\ Unavailable(scheduleFile) /\ scheduleData \in SchedDocs) =>
       scheduleData' = scheduleData]_vars

C19_FutureNeverFrozen ==
  (lastResponse.op = "lookup" /\ lastResponse.date > Today) => ~lastResponse.isHistorical

\* the part of C19 the code keeps: a response flagged isHistorical carries the
\* person and version of the stored record of its date and layer
C19_FlagMeansStoredRecord ==
  (lastResponse.op = "lookup" /\ lastResponse.isHistorical) =>
    \E i \in RowsOf(assignments, lastResponse.date, lastResponse.layerKey) :
      /\ lastResponse.person = Some(assignments[i].person)
      /\ lastResponse.versionId = Some(assignments[i].version_id)

\* the rows stored for a month, in the order of the calls that stored them
RowsOfMonth(month) == {i \in 1..Len(monthly) : monthly[i].month = month}

\* C20: the store holds at most one override set per month, and
\* getOverrides(m) returns the data of the most recent
\* storeMonthlyOverrides(m, .), or no overrides when there was no such call.
C20_LatestOverridesPerMonth ==
  /\ \A month \in OverrideMonths : Cardinality(RowsOfMonth(month)) <= 1
  /\ lastResponse.op = "overrides" =>
       LET stored == RowsOfMonth(lastResponse.month)
       IN IF stored = {} THEN lastResponse.data = NoOverrides
          ELSE lastResponse.data =
                 monthly[CHOOSE i \in stored : \A j \in stored : j <= i].override_data

\* the parts of C20 the code keeps: creating a version changes no override
\* row, and a month nobody stored for reads as no overrides
C20_VersionsLeaveOverrides ==
  [][Len(versions') # Len(versions) => monthly' = monthly]_vars

\* the calendar dates the instant of the call falls on: in the layer's own
\* offset, in UTC and in the server's zone
AssignDateKeys == {AssignDate, DayNumber(aInstant, 0), DayNumber(aInstant, serverTz)}

\* the override map has no entry for the layer on a date of the instant
NoOverrideForDate ==
  \A d \in AssignDateKeys :
    /\ <<d, aKey>> \notin DOMAIN aOverrides.byDate
    /\ <<d, aKey>> \notin DOMAIN aOverrides.legacy

LayerClock == ClockOf(aInstant, aLayer.tz)
LayerDay == DayNumber(aInstant, aLayer.tz)

\* the call made was one of isCurrentTimeInShift, in either copy
ShiftTested == aResult # None /\ aCopy \in {"isCurrentTimeInShift", "isCurrentTimeInShiftSvc"}

\* C21: a weekday layer whose end clock time is earlier than its start clock
\* time is active at the layer-local clock time c iff c >= start or c < end;
\* a layer whose window does not cross midnight is active iff start <= c < end.
C21_ClockWindow ==
  ShiftTested =>
    (The(aResult).active <=>
       IF aLayer.end_clock < aLayer.start_clock
       THEN LayerClock >= aLayer.start_clock \/ LayerClock < aLayer.end_clock
       ELSE aLayer.start_clock <= LayerClock /\ LayerClock < aLayer.end_clock)

\* C21 holds where the zone the map names has the layer's offset and, for the
\* copy that reads the start and end clock from Date objects, the server runs
\* in that offset as well
C21_InZoneOfTheMap ==
  (/\ ShiftTested
   /\ aLayer.tz \in DOMAIN timezoneMap
   /\ aCopy = "isCurrentTimeInShiftSvc" => serverTz = aLayer.tz)
  => C21_ClockWindow

\* the example of C21 (start in the last slot of the day, end in slot 1): in
\* the window after midnight
C21_Example ==
  /\ ShiftTested
  /\ aCopy = "isCurrentTimeInShift"
  /\ aLayer.tz = Kolkata
  /\ aLayer.start_clock = SlotsPerDay - 1
  /\ aLayer.end_clock = 1
  /\ LayerClock = 0
  /\ The(aResult).active

\* the call made was one of isCurrentTimeInWeekendShift, in either copy
WeekendTested ==
  aResult # None /\ aCopy \in {"isCurrentTimeInWeekendShift", "isCurrentTimeInWeekendShiftSvc"}

\* the instant of the call on the layer's own wall clock
LayerWall == aInstant + aLayer.tz

Saturdays == {d \in -7..(AssignDays + 1) : DayOfWeek(d) = 6}

\* the weekend window that begins on the Saturday d, on the layer's wall clock
WindowStart(d) == d * SlotsPerDay + aLayer.start_clock
WindowEnd(d) == (d + 2) * SlotsPerDay + aLayer.end_clock

\* C22: a weekend layer is active at t iff t lies in the half-open window from
\* a Saturday at the start clock time to the following Monday at the end clock
\* time, layer-local: inactive Tuesday to Friday, on Saturday before the start
\* and from the Monday end instant on.
C22_BoundedWeekendWindow ==
  WeekendTested =>
    (The(aResult).active <=>
       \E d \in Saturdays : WindowStart(d) <= LayerWall /\ LayerWall < WindowEnd(d))

\* C22 holds for the copy with the bounded window where the zone of the map
\* has the layer's offset and the server runs in it, at every instant but the
\* Monday end instant itself
C22_ExceptEndInstant ==
  (/\ WeekendTested
   /\ aCopy = "isCurrentTimeInWeekendShift"
   /\ aLayer.tz \in DOMAIN timezoneMap
   /\ serverTz = aLayer.tz
   /\ \A d \in Saturdays : LayerWall # WindowEnd(d))
  => C22_BoundedWeekendWindow

\* the window's end instant is reported active by the copy with the bounded window
C22_EndInstantActive ==
  /\ WeekendTested
  /\ aCopy = "isCurrentTimeInWeekendShift"
  /\ aLayer.tz \in DOMAIN timezoneMap
  /\ serverTz = aLayer.tz
  /\ \E d \in Saturdays : LayerWall = WindowEnd(d)
  /\ The(aResult).active

\* Saturday before the start is reported active by the copy of src/services
C22_SaturdayBeforeStart ==
  /\ WeekendTested
  /\ aCopy = "isCurrentTimeInWeekendShiftSvc"
  /\ aLayer.tz \in DOMAIN timezoneMap
  /\ serverTz = aLayer.tz
  /\ DayOfWeek(LayerDay) = 6
  /\ LayerClock < aLayer.start_clock
  /\ The(aResult).active

\* the occurrence a call of the occurrence finder returned, on the server's
\* wall clock (the finder works with the server-local getters and setters)
FoundNext == The(aResult).next
ServerDayOf(t) == DayNumber(t, serverTz)
ServerStartClock == ClockOf(StartInstant(aLayer), serverTz)

\* C24: for a weekend layer and every reference instant, the occurrence
\* returned falls on a Saturday, at the layer's start clock time.
C24_AlwaysSaturday ==
  (aResult # None /\ aCopy = "getNextWeekendOccurrence") =>
    /\ FoundNext # None
    /\ getDay(The(FoundNext), serverTz) = 6
    /\ ClockOf(The(FoundNext), serverTz) = ServerStartClock

\* the occurrence is always at the start clock time, and on a Saturday
\* unless the reference instant is a Sunday before that clock time
C24_ExceptSundayMorning ==
  (aResult # None /\ aCopy = "getNextWeekendOccurrence") =>
    /\ FoundNext # None
    /\ ClockOf(The(FoundNext), serverTz) = ServerStartClock
    /\ (getDay(aInstant, serverTz) = 0 /\ ClockOf(aInstant, serverTz) < ServerStartClock)
         \/ getDay(The(FoundNext), serverTz) = 6

\* from a Wednesday: the Saturday after
C24_FromMidweek ==
  /\ aResult # None
  /\ aCopy = "getNextWeekendOccurrence"
  /\ getDay(aInstant, serverTz) = 3
  /\ ServerDayOf(The(FoundNext)) = ServerDayOf(aInstant) + 3

\* the reference instant and today's start of the layer on the server's wall
\* clock, and the server-local calendar day of the reference instant
WallFrom == aInstant + serverTz
FromDay == WallFrom \div SlotsPerDay
StartOn(day) == day * SlotsPerDay + ServerStartClock

\* a day on which a weekday layer starts: Monday to Friday, and Saturday when
\* the start clock-hour is before 10:00
Qualifies(day) ==
  \/ DayOfWeek(day) \in 1..5
  \/ DayOfWeek(day) = 6 /\ HourBefore10(ServerStartClock)

FollowingDays == {FromDay + k : k \in 1..7}

WeekdaySearched == aResult # None /\ aCopy = "getNextShiftOccurrence"

\* C26: for a weekday layer and the reference instant `from`: today's start
\* when it is strictly after `from` and today is Monday to Friday; otherwise
\* the start on the first of the following 7 days that is Monday to Friday,
\* or a Saturday when the start clock-hour is before 10:00.  The result is
\* strictly after `from`.
C26_NextWeekdayOccurrence ==
  WeekdaySearched =>
    /\ FoundNext # None
    /\ The(FoundNext) > aInstant
    /\ The(FoundNext) + serverTz =
         IF StartOn(FromDay) > WallFrom /\ DayOfWeek(FromDay) \in 1..5
         THEN StartOn(FromDay)
         ELSE StartOn(CHOOSE d \in FollowingDays :
                        Qualifies(d) /\ \A e \in FollowingDays : Qualifies(e) => d <= e)

\* C26 on a Friday after the start of an early-morning layer: the Saturday start
C26_Witness ==
  /\ WeekdaySearched
  /\ DayOfWeek(FromDay) = 5
  /\ StartOn(FromDay) <= WallFrom
  /\ HourBefore10(ServerStartClock)
  /\ The(FoundNext) + serverTz = StartOn(FromDay + 1)

\* C27: the search ends within the 7 following days: an occurrence returned
\* is today's start or the start on one of the 7 following days, and none is
\* returned only when none of these 7 days qualifies.
C27_SearchBounded ==
  WeekdaySearched =>
    /\ FoundNext # None =>
         \E k \in 0..7 : The(FoundNext) + serverTz = StartOn(FromDay + k)
    /\ FoundNext = None => \A d \in FollowingDays : ~Qualifies(d)

\* C27 with the longest probe: from a Friday after the start of a layer that
\* starts at 10:00 or later, the third following day
C27_Witness ==
  /\ WeekdaySearched
  /\ DayOfWeek(FromDay) = 5
  /\ StartOn(FromDay) <= WallFrom
  /\ ~HourBefore10(ServerStartClock)
  /\ The(FoundNext) + serverTz = StartOn(FromDay + 3)

\* ------------------------------------------------------------------------
\* Claims about the queries on the loaded schedule
\* ------------------------------------------------------------------------
\* the windows as the design defines them, on the layer's own wall clock: the
\* daily clock window of a weekday layer (C21) and the Saturday-to-Monday
\* window of a weekend layer (C22)
InDailyWindow(layer, t) ==
  LET c == ClockOf(t, layer.tz) IN
  IF layer.end_clock < layer.start_clock
  THEN c >= layer.start_clock \/ c < layer.end_clock
  ELSE layer.start_clock <= c /\ c < layer.end_clock

InWeekendWindow(layer, t) ==
  \E d \in Saturdays :
    /\ d * SlotsPerDay + layer.start_clock <= t + layer.tz
    /\ t + layer.tz < (d + 2) * SlotsPerDay + layer.end_clock

\* the entries of a group whose window contains t, by position
Containing(entries, t, InWindowOf(_, _)) ==
  {i \in 1..Len(entries) : InWindowOf(entries[i].config, t)}

ActiveTested == aResult # None /\ aCopy \in {"getCurrentActiveLayer", "getCurrentActiveLayerSvc"}

\* C25: the active layer at t is a weekend layer whenever a weekend layer's
\* window contains t, also when a weekday layer's clock window contains t;
\* otherwise the first weekday layer in declaration order whose window
\* contains t; otherwise none.
C25_WeekendThenDeclarationOrder ==
  ActiveTested =>
    LET weekend == Containing(scheduleData.weekend, aInstant, InWeekendWindow)
        weekday == Containing(scheduleData.weekday, aInstant, InDailyWindow)
        found == The(aResult).layer
    IN IF weekend # {}
       THEN found # None /\ \E i \in weekend : The(found) = scheduleData.weekend[i]
       ELSE IF weekday # {}
       THEN found = Some(scheduleData.weekday[CHOOSE i \in weekday : \A j \in weekday : i <= j])
       ELSE found = None

\* C25 holds for the copy with the bounded weekend window on a server in the
\* layers' zone, at every instant but the end instant of the weekend window
C25_ExceptEndInstant ==
  (/\ ActiveTested
   /\ aCopy = "getCurrentActiveLayer"
   /\ serverTz = Kolkata
   /\ \A i \in 1..Len(scheduleData.weekend) : \A d \in Saturdays :
        aInstant + Kolkata # (d + 2) * SlotsPerDay + scheduleData.weekend[i].config.end_clock)
  => C25_WeekendThenDeclarationOrder

\* the weekend layer returned while a weekday layer's clock window contains t
C25_WeekendOverWeekday ==
  /\ C25_WeekendThenDeclarationOrder
  /\ ActiveTested
  /\ aCopy = "getCurrentActiveLayer"
  /\ Containing(scheduleData.weekday, aInstant, InDailyWindow) # {}
  /\ The(aResult).layer # None
  /\ The(The(aResult).layer).key = "full_weekend"

\* of two weekday layers containing t, the first declared is returned when it
\* is not the first by key
C25_DeclarationOrder ==
  /\ C25_WeekendThenDeclarationOrder
  /\ ActiveTested
  /\ aCopy = "getCurrentActiveLayer"
  /\ Cardinality(Containing(scheduleData.weekday, aInstant, InDailyWindow)) = 2
  /\ The(aResult).layer # None
  /\ The(The(aResult).layer).key = "layer2"

\* none is returned where no window contains t
C25_NoneActive ==
  /\ C25_WeekendThenDeclarationOrder
  /\ ActiveTested
  /\ aCopy = "getCurrentActiveLayer"
  /\ The(aResult).layer = None

\* on a Monday inside the weekend window the copy of src/services returns a
\* weekday layer or none, on a server in the layers' zone
C25_MondayMorningSvc ==
  /\ ActiveTested
  /\ aCopy = "getCurrentActiveLayerSvc"
  /\ serverTz = Kolkata
  /\ Containing(scheduleData.weekend, aInstant, InWeekendWindow) # {}
  /\ DayOfWeek(DayNumber(aInstant, Kolkata)) = 1
  /\ \/ The(aResult).layer = None
     \/ The(The(aResult).layer).config.type = "weekday"

\* the occurrences of the weekday layers of the loaded schedule, whatever
\* their keys, on the look-ahead days: the server-local days of the instant
\* and of the three days after it that are Monday to Friday; each as a pair
\* <<start instant, layer key>>
LookAheadDays == {d \in {DayNumber(aInstant, serverTz) + k : k \in DayOffsets} : DayOfWeek(d) \in 1..5}

CandidateOccurrences ==
  { <<d * SlotsPerDay + ClockOf(StartInstant(scheduleData.weekday[i].config), serverTz) - serverTz,
      scheduleData.weekday[i].key>> :
      d \in LookAheadDays, i \in 1..Len(scheduleData.weekday) }

\* the start instants of the n earliest of a set of occurrences, in order
RECURSIVE EarliestStarts(_, _)
EarliestStarts(occurrences, n) ==
  IF occurrences = {} \/ n = 0 THEN <<>>
  ELSE LET first == CHOOSE a \in occurrences : \A b \in occurrences : a[1] <= b[1]
       IN <<first[1]>> \o EarliestStarts(occurrences \ {first}, n - 1)

HandOffListed == aResult # None /\ aCopy = "getNextShiftsInSequence"

\* C30: the hand-off list for (now, N) has at most N entries, every entry
\* starts strictly after now, the entries are in non-decreasing order of start
\* instant, and they are the N earliest of the occurrences after now of all
\* weekday layers of the schedule, whatever their keys, on the look-ahead days.
C30_HandOffList ==
  HandOffListed =>
    LET list == The(aResult).list
        N == The(aResult).count
    IN /\ Len(list) <= N
       /\ \A i \in 1..Len(list) : list[i].startTime > aInstant
       /\ \A i \in 1..Len(list) : \A j \in i..Len(list) : list[i].startTime <= list[j].startTime
       /\ [i \in 1..Len(list) |-> list[i].startTime] =
            EarliestStarts({c \in CandidateOccurrences : c[1] > aInstant}, N)

\* the first three clauses of C30 hold as they stand
C30_BoundedAfterNowOrdered ==
  HandOffListed =>
    LET list == The(aResult).list
        N == The(aResult).count
    IN /\ Len(list) <= N
       /\ \A i \in 1..Len(list) : list[i].startTime > aInstant
       /\ \A i \in 1..Len(list) : \A j \in i..Len(list) : list[i].startTime <= list[j].startTime

\* C30 holds as a whole when every weekday layer has one of the keys layer1 to
\* layer4 and the server runs in UTC
C30_FixedKeysUtc ==
  (/\ HandOffListed
   /\ serverTz = 0
   /\ \A i \in 1..Len(scheduleData.weekday) :
        \E j \in 1..Len(layerSequence) : scheduleData.weekday[i].key = layerSequence[j])
  => C30_HandOffList

\* a full list of three entries of two layers
C30_ThreeListed ==
  /\ C30_HandOffList
  /\ HandOffListed
  /\ Len(The(aResult).list) = 3
  /\ {The(aResult).list[i].layerKey : i \in 1..3} = {"layer1", "layer2"}

\* a weekday layer with a key of its own never enters the list
C30_OtherKeyLeftOut ==
  /\ HandOffListed
  /\ serverTz = 0
  /\ \E i \in 1..Len(scheduleData.weekday) : scheduleData.weekday[i].key = "night"
  /\ Len(The(aResult).list) = 3
  /\ \A i \in 1..3 : The(aResult).list[i].layerKey = "layer1"

\* ------------------------------------------------------------------------
\* The evaluation of a tick: what it arms and what it discards
\* ------------------------------------------------------------------------
\* a step in which an evaluation ran: a tick of an interval, or the first
\* evaluation of start()
Evaluation == ticked' # ticked /\ ticked \subseteq ticked'

\* the layers of the schedule the evaluation worked on, each with the next
\* occurrence the occurrence finder gives at the tick instant
NextOccurrences ==
  { [key |-> scheduleData'.weekday[i].key,
     next |-> getNextShiftOccurrence(StartInstant(scheduleData'.weekday[i].config), now,
                                     serverTz)] : i \in 1..Len(scheduleData'.weekday) }
  \cup
  { [key |-> scheduleData'.weekend[i].key,
     next |-> getNextWeekendOccurrence(StartInstant(scheduleData'.weekend[i].config), now,
                                       serverTz)] : i \in 1..Len(scheduleData'.weekend) }

\* the keys the tick has to arm: occurrence at most 24 hours after the tick
\* instant, fire time strictly in the future, key not armed
ToArm ==
  { TimerKey(x.key, The(x.next)) :
      x \in { y \in NextOccurrences :
                /\ y.next # None
                /\ The(y.next) - now <= SlotsPerDay
                /\ The(y.next) - minutesBefore > now
                /\ TimerKey(y.key, The(y.next)) \notin activeTimers } }

\* C28: on every tick a timer is armed for a layer's next occurrence exactly
\* when the occurrence is at most 24 hours after the tick instant, its fire
\* time (occurrence - minutesBefore) is strictly in the future and the key is
\* not armed; one timer is set per armed key, due at occurrence -
\* minutesBefore, so that no timer is armed with a fire time already past.
C28_ArmedWithinWindow ==
  [][/\ Evaluation =>
          /\ activeTimers' \ activeTimers = ToArm
          /\ \A k \in DOMAIN liveTimers' \cup DOMAIN liveTimers :
               BagCount(liveTimers', k) =
                 BagCount(liveTimers, k) + (IF k \in ToArm THEN 1 ELSE 0)
     /\ \A k \in activeTimers' \ activeTimers :
          /\ k[2] - minutesBefore > now
          /\ BagCount(liveTimers', k) > 0
    ]_vars

\* a scheduler started once holds a timer for an occurrence that was more
\* than 24 hours away when it started: a later tick armed it, and at that tick
\* another layer's next occurrence was left unarmed
C28_Witness ==
  /\ starts = 1
  /\ runningSince # None
  /\ ticked # {}
  /\ \E k \in activeTimers :
       /\ k[2] - The(runningSince) > SlotsPerDay
       /\ k[2] - now <= SlotsPerDay
       /\ k[2] - minutesBefore > now
  /\ \E i \in 1..Len(scheduleData.weekend) :
       The(getNextWeekendOccurrence(StartInstant(scheduleData.weekend[i].config), now,
                                    serverTz)) - now > SlotsPerDay

\* C29: at the start of every tick each armed timer whose occurrence instant
\* is already past is cancelled and taken out of the active set, so that
\* after a tick the active set holds only keys whose occurrence instant is not
\* before the tick instant.
C29_StaleDiscarded ==
  [][Evaluation =>
       /\ \A k \in activeTimers :
            k[2] < now => (k \notin activeTimers' /\ BagCount(liveTimers', k) = 0)
       /\ \A k \in activeTimers' : k[2] >= now]_vars

\* while every timer callback runs in the slot in which it is due, no armed
\* key has its occurrence in the past, and the tick has nothing to discard
C29_OnTimeNothingStale == \A k \in activeTimers : k[2] >= now

\* a tick has run in a slot after the occurrence of an armed key, and the key
\* is still armed with its timer pending
C29_StaleKept ==
  /\ ticked # {}
  /\ \E k \in activeTimers : k[2] < now /\ BagCount(liveTimers, k) > 0

\* the timer of an occurrence already past at an earlier tick has fired
C29_StaleFired ==
  /\ ticked # {}
  /\ \E k \in DOMAIN sent : BagCount(sent, k) > 0 /\ k[2] < now /\ k[2] - minutesBefore < now - 1

\* ------------------------------------------------------------------------
\* What a lookup without a stored record computes
\* ------------------------------------------------------------------------
\* the versions effective for a date: the active ones with the latest
\* effective date not after it
EffectiveFor(date) ==
  LET upTo == {i \in 1..Len(versions) :
                 versions[i].is_active /\ versions[i].effective_date <= date}
  IN {versions[i] : i \in {j \in upTo : \A k \in upTo :
                                versions[k].effective_date <= versions[j].effective_date}}

\* the override sets stored for the month of a date
StoredOverrides(date) ==
  LET rows == {i \in 1..Len(monthly) : monthly[i].month = MonthOf(date)}
  IN IF rows = {} THEN {NoOverrides} ELSE {monthly[i].override_data : i \in rows}

\* what the RotationCalculator assigns for the layer in the effective versions
\* under the stored overrides
Assigned(date, layerKey) ==
  {calculateCurrentAssignment(The(LayerOf(v.schedule_data, layerKey)), DateInstant(date), ov,
                              layerKey, serverTz).person :
     v \in {w \in EffectiveFor(date) : LayerOf(w.schedule_data, layerKey) # None},
     ov \in StoredOverrides(date)}

\* the calls that computed their assignment in this step
Computed == {c \in DOMAIN lookups' : c.pc = "store" /\ BagCount(lookups', c) > BagCount(lookups, c)}

\* C31: a lookup for (D, L) that finds no stored record computes the person
\* the RotationCalculator assigns for layer L of the version effective for D,
\* at D, under the overrides stored for D's month: the override's person when
\* there is an entry for (D, L), the rotation result otherwise.
C31_ComputedByRotationCalculator ==
  [][\A c \in Computed :
       EffectiveFor(c.date) # {} =>
         /\ c.assignment # None
         /\ The(c.assignment).person \in Assigned(c.date, c.layerKey)]_vars

\* a lookup has computed the rotation's person while an override for its
\* date and layer is stored
C31_OverrideIgnored ==
  \E c \in DOMAIN lookups :
    /\ c.pc = "store"
    /\ c.assignment # None
    /\ EffectiveFor(c.date) # {}
    /\ Assigned(c.date, c.layerKey) = {"carol"}
    /\ The(c.assignment).person # "carol"

\* a lookup has computed the override's person
C31_OverrideTaken ==
  \E c \in DOMAIN lookups :
    /\ c.pc = "store"
    /\ c.assignment # None
    /\ EffectiveFor(c.date) # {}
    /\ Assigned(c.date, c.layerKey) = {"carol"}
    /\ The(c.assignment).person = "carol"

\* ------------------------------------------------------------------------
\* The rotation index
\* ------------------------------------------------------------------------
Members(layer) == {layer.users[i] : i \in 1..Len(layer.users)}

\* the instant of the call lies on a date before the layer's start date, in
\* the layer's offset, in UTC and in the server's zone
BeforeStart ==
  /\ AssignDate < aLayer.start_day
  /\ DayNumber(aInstant, 0) < DayNumber(StartInstant(aLayer), 0)
  /\ DayNumber(aInstant, serverTz) < DayNumber(StartInstant(aLayer), serverTz)

Rotated == aResult # None /\ aCopy \in {"tz", "utc", "svc"}

\* C32: for a layer of any kind with rotation period >= 1 and members, at
\* every instant, the person assigned is one of the members, and at every
\* instant on a date before the start date it is members[0]: the rotation
\* cycle is never negative and the index never outside the list.
C32_IndexInRange ==
  Rotated =>
    /\ The(aResult).person \in Members(aLayer)
    /\ BeforeStart => The(aResult).person = aLayer.users[1]

\* C32 for the two copies of calculateCurrentAssignment
C32_CalculatorInRange ==
  (Rotated /\ aCopy \in {"tz", "utc"}) =>
    /\ The(aResult).person \in Members(aLayer)
    /\ BeforeStart => The(aResult).person = aLayer.users[1]

\* the calculator at a date before the start of a layer of the third kind
C32_BeforeStartFirstMember ==
  /\ Rotated
  /\ aCopy = "tz"
  /\ aLayer.type = "daily"
  /\ Len(aLayer.users) = 3
  /\ BeforeStart
  /\ The(aResult).person = "A"

\* the copy in src/services at a date before the start: no member
C32_NoMemberBeforeStart ==
  /\ Rotated
  /\ aCopy = "svc"
  /\ BeforeStart
  /\ The(aResult).person = Undefined

\* what the called calculator returns for the same layer at another instant
AtInstant(t) ==
  IF aCopy = "tz" THEN calculateCurrentAssignment(aLayer, t, NoOverrides, aKey, serverTz)
  ELSE IF aCopy = "utc" THEN calculateCurrentAssignmentUtc(aLayer, t, NoOverrides, aKey, serverTz)
  ELSE rotateSvc(aLayer, t)

Calculated == aResult # None /\ aCopy \in {"tz", "utc"}

RotationSaturdays == {d \in 0..RotationDays : DayOfWeek(d) = 6}

\* the instant of the call lies in the weekend window that begins on the
\* Saturday d: Saturday at the start clock time to Monday at the end clock time
InWeekendOf(d) == WindowStart(d) <= LayerWall /\ LayerWall < WindowEnd(d)

\* C33: for a weekend layer with period p >= 1 and no overrides the
\* calculator returns, at every instant of one weekend window (Saturday from
\* the start, Sunday, Monday up to the end clock time), the person it returns
\* at the start of that window.
C33_OnePersonPerWeekend ==
  (Calculated /\ aLayer.type = "weekend") =>
    \A d \in RotationSaturdays :
      InWeekendOf(d) => The(aResult).person = AtInstant(WindowStart(d) - aLayer.tz).person

\* with period 1 the person of the Monday morning is not the one of the
\* Saturday the window began on
C33_MondayChanged ==
  /\ Calculated
  /\ aCopy = "tz"
  /\ aLayer.type = "weekend"
  /\ aLayer.days_rotate = 1
  /\ aLayer.users = <<"A", "B">>
  /\ InWeekendOf(2)
  /\ DayOfWeek(LayerDay) = 1
  /\ AtInstant(WindowStart(2) - aLayer.tz).person = "A"
  /\ The(aResult).person = "B"

\* with period 2 the person of the second weekend's Sunday is not the one of
\* its Saturday
C33_SundayChanged ==
  /\ Calculated
  /\ aCopy = "tz"
  /\ aLayer.type = "weekend"
  /\ aLayer.days_rotate = 2
  /\ aLayer.users = <<"A", "B">>
  /\ InWeekendOf(9)
  /\ DayOfWeek(LayerDay) = 0
  /\ AtInstant(WindowStart(9) - aLayer.tz).person = "A"
  /\ The(aResult).person = "B"

\* the instant of the call lies after local midnight in a shift of a weekday
\* layer that began on the day before, a Monday to Friday not before the
\* layer's start date
AfterMidnight ==
  /\ aLayer.type = "weekday"
  /\ aLayer.end_clock < aLayer.start_clock
  /\ LayerClock < aLayer.end_clock
  /\ DayOfWeek(LayerDay - 1) \in 1..5
  /\ LayerDay - 1 >= aLayer.start_day

\* the start instant of that shift
ShiftStart == (LayerDay - 1) * SlotsPerDay + aLayer.start_clock - aLayer.tz

\* C34: for a weekday layer whose window crosses midnight and no overrides,
\* the person assigned at an instant after local midnight, before the end
\* clock time, is the person assigned at the start instant of that shift.
C34_OnePersonPerShift ==
  (Calculated /\ AfterMidnight) => The(aResult).person = AtInstant(ShiftStart).person

\* C34 holds for the first copy in the shift that begins on a Friday: the
\* Saturday it ends on is no counted day
C34_FridayShift ==
  (Calculated /\ aCopy = "tz" /\ AfterMidnight /\ DayOfWeek(LayerDay - 1) = 5)
    => The(aResult).person = AtInstant(ShiftStart).person

\* with period 1 the person changes at local midnight inside the shift that
\* began on the Thursday
C34_ChangedAtMidnight ==
  /\ Calculated
  /\ aCopy = "tz"
  /\ AfterMidnight
  /\ aLayer.days_rotate = 1
  /\ aLayer.users = <<"A", "B">>
  /\ LayerDay = 1
  /\ AtInstant(ShiftStart).person = "A"
  /\ The(aResult).person = "B"

\* ------------------------------------------------------------------------
\* Re-evaluation of the next weekday occurrence
\* ------------------------------------------------------------------------
\* the instants after the reference instant and before the occurrence found
BeforeFound == {t \in (aInstant + 1)..(AssignDays + 8) * SlotsPerDay : t < The(FoundNext)}

\* what an evaluation at the instant t finds for the same layer
FoundAt(t) == getNextShiftOccurrence(StartInstant(aLayer), t, serverTz)

\* C35: the next occurrence of a weekday layer is stable under re-evaluation:
\* an evaluation at any instant after the reference instant and before the
\* occurrence found returns the same occurrence, also when the occurrence is
\* the Saturday start of an early-morning layer and the later evaluation is
\* made on that Saturday.
C35_StableUnderReevaluation ==
  (WeekdaySearched /\ FoundNext # None) =>
    \A t \in BeforeFound : FoundAt(t) = FoundNext

\* C35 holds for every occurrence found that does not fall on a Saturday
C35_ExceptSaturday ==
  (WeekdaySearched /\ FoundNext # None /\ getDay(The(FoundNext), serverTz) # 6) =>
    \A t \in BeforeFound : FoundAt(t) = FoundNext

\* found on the Friday: the Saturday start; an evaluation on that Saturday
\* before the start finds the Monday start
C35_SaturdaySkipped ==
  /\ WeekdaySearched
  /\ FoundNext # None
  /\ DayOfWeek(FromDay) = 5
  /\ The(FoundNext) + serverTz = StartOn(FromDay + 1)
  /\ \E t \in BeforeFound :
       /\ ServerDayOf(t) = FromDay + 1
       /\ FoundAt(t) # None
       /\ The(FoundAt(t)) + serverTz = StartOn(FromDay + 3)

\* a re-evaluation on a later day before a Monday occurrence finds it again
C35_MondayKept ==
  /\ WeekdaySearched
  /\ FoundNext # None
  /\ getDay(The(FoundNext), serverTz) = 1
  /\ \E t \in BeforeFound : ServerDayOf(t) > FromDay /\ FoundAt(t) = FoundNext

\* ------------------------------------------------------------------------
\* start() and stop() interleaved
\* ------------------------------------------------------------------------
\* the scheduler is stopped and no start() is under way
Stopped == ~isRunning /\ pendingStarts = 0

\* C36: under every interleaving of start() and stop(), a second start()
\* during the schedule load of an earlier one included, there is at most one
\* tick interval at any time, and while the scheduler is stopped there is no
\* tick interval, no armed key and no pending timer.
C36_OneIntervalNoneAfterStop ==
  /\ Cardinality(intervals) <= 1
  /\ Stopped =>
       /\ intervals = {}
       /\ activeTimers = {}
       /\ \A k \in DOMAIN liveTimers : BagCount(liveTimers, k) = 0

\* C36 holds for a scheduler on which start() was called once: stop() leaves
\* no interval and no timer behind
C36_SingleStart ==
  starts + pendingStarts <= 1 => C36_OneIntervalNoneAfterStop

\* the scheduler was started once, has armed timers and was stopped
C36_StoppedClean ==
  /\ starts = 1
  /\ Stopped
  /\ now > 0
  /\ intervals = {}
  /\ activeTimers = {}
  /\ \E k \in DOMAIN sent : BagCount(sent, k) > 0

\* two start() calls have passed the load: two intervals tick
C36_TwoIntervals ==
  /\ isRunning
  /\ Cardinality(intervals) = 2
  /\ checkInterval = 2

\* after stop() the interval of the first start() still ticks: it has armed a
\* timer, and a notification has been sent since
C36_ArmedAfterStop ==
  /\ Stopped
  /\ intervals = {1}
  /\ checkInterval = 0
  /\ activeTimers # {}
  /\ \E k \in DOMAIN sent : BagCount(sent, k) > 0

\* ------------------------------------------------------------------------
\* Cleanup and the governing version
\* ------------------------------------------------------------------------
\* C37: cleanup(retentionMonths) with retentionMonths >= 1 leaves the version
\* governing today resolvable: getScheduleForDate(today) answers after the
\* cleanup what it answered before it, whatever the effective date of that
\* version, so the change detection of a following start finds it and creates
\* no further 'initial' version.
C37_GoverningVersionKept ==
  [][(lastResponse'.op = "cleanup" /\ lastResponse'.monthsToKeep >= 1) =>
       {r.id : r \in UNION getScheduleForDate(versions', Today)} =
         {r.id : r \in UNION getScheduleForDate(versions, Today)}]_vars

\* C37 holds for a governing version effective on or after the cutoff day
C37_KeptFromCutoff ==
  [][(lastResponse'.op = "cleanup" /\ lastResponse'.monthsToKeep >= 1) =>
       \A r \in UNION getScheduleForDate(versions, Today) :
         r.effective_date >= CutoffDay(Today, lastResponse'.monthsToKeep) =>
           [r EXCEPT !.is_active = TRUE] \in
             {[q EXCEPT !.is_active = TRUE] : q \in UNION getScheduleForDate(versions', Today)}]_vars

\* a cleanup keeping one month has left today without a governing version
C37_Unresolvable ==
  /\ lastResponse.op = "cleanup"
  /\ lastResponse.monthsToKeep = 1
  /\ lastResponse.versionsMarked > 0
  /\ getScheduleForDate(versions, Today) = {None}

\* the start after such a cleanup has stored the unchanged document again, as
\* a second version effective from the layers' earliest start date
C37_DuplicateInitial ==
  /\ lastResponse.op = "check"
  /\ lastResponse.created
  /\ lastResponse.latest = None
  /\ Len(versions) = 2
  /\ ~versions[1].is_active
  /\ versions[2].schedule_data = versions[1].schedule_data
  /\ versions[2].effective_date = versions[1].effective_date

\* ------------------------------------------------------------------------
\* Lookups of a past date and the frozen documents
\* ------------------------------------------------------------------------
\* the stored versions, active or not, of the latest effective date <= date
LatestStored(date) ==
  {i \in StoredUpTo(date) :
     \A j \in StoredUpTo(date) : versions[j].effective_date <= versions[i].effective_date}

\* the calls whose assignment this step has computed
JustComputed == {call \in DOMAIN lookups' :
                   call.pc = "store" /\ BagCount(lookups', call) > BagCount(lookups, call)}

\* the call's assignment is the one calculated from the document of version i
FromDocumentOf(call, i) ==
  /\ call.version = Some(versions[i].id)
  /\ \/ \E overrides \in getOverrides(monthly, MonthOf(call.date)) :
          call.assignment = calculateAssignment(versions[i].schedule_data, call.date,
                                                call.layerKey, overrides, serverTz)
     \/ call.assignment = calculateAssignmentSvc(versions[i].schedule_data, call.date,
                                                 call.layerKey)

\* C38: a lookup of a past date D that finds no record, with a version
\* effective on or before D stored (active or inactive), computes the
\* assignment from the frozen document of the latest such version and never
\* from the live schedule document, also after a cleanup and after an edit
\* of the live schedule.
C38_FromFrozenDocument ==
  [][\A call \in JustComputed :
       (call.date < Today /\ StoredUpTo(call.date) # {}) =>
         \E i \in LatestStored(call.date) : FromDocumentOf(call, i)]_vars

\* C38 holds while the latest version effective on or before D is active
C38_FromActiveVersion ==
  [][\A call \in JustComputed :
       (call.date < Today /\ StoredUpTo(call.date) # {}
        /\ \A i \in LatestStored(call.date) : versions[i].is_active) =>
         \E i \in LatestStored(call.date) : FromDocumentOf(call, i)]_vars

\* a lookup of a past date has computed from the frozen document while the
\* live schedule holds another document
C38_FrozenUsed ==
  \E call \in DOMAIN lookups :
    /\ call.pc = "store"
    /\ call.date < Today
    /\ \E i \in LatestStored(call.date) :
         /\ FromDocumentOf(call, i)
         /\ versions[i].is_active
         /\ versions[i].schedule_data # currentSchedule
         /\ call.assignment # calculateAssignmentSvc(currentSchedule, call.date, call.layerKey)

\* after a cleanup, a lookup of a past date has computed from the live
\* document, under the current version's id, while the version that governed
\* the date is stored inactive with another document
C38_LiveUsed ==
  \E call \in DOMAIN lookups :
    /\ call.pc = "store"
    /\ call.date < Today
    /\ LatestStored(call.date) # {}
    /\ \A i \in LatestStored(call.date) :
         /\ ~versions[i].is_active
         /\ versions[i].schedule_data # currentSchedule
         /\ ~FromDocumentOf(call, i)
    /\ call.version = {v.id : v \in currentVersion}
    /\ call.assignment = calculateAssignmentSvc(currentSchedule, call.date, call.layerKey)

\* ------------------------------------------------------------------------
\* Overlapping lookups
\* ------------------------------------------------------------------------
\* C39: two lookups of one (D, L) that overlap while no record exists, with an
\* override store or a version creation between their compute and write
\* steps, return the same person, and that person is the one of the single
\* record stored for (D, L): every lookup that has returned a person with a
\* record of its (D, L) stored names the recorded person, and (D, L) has one
\* record.
C39_OverlappingLookupsAgree ==
  /\ \A key \in DOMAIN firstRecorded :
       Cardinality(RowsOf(assignments, key[1], key[2])) = 1
  /\ (lastResponse.op = "lookup" /\ lastResponse.person # None
      /\ <<lastResponse.date, lastResponse.layerKey>> \in DOMAIN firstRecorded) =>
       \A i \in RowsOf(assignments, lastResponse.date, lastResponse.layerKey) :
         lastResponse.person = Some(assignments[i].person)

\* the part of C39 that holds: the overlapping lookups leave one record of
\* (D, L), that of the lookup that wrote first
C39_SingleRecord ==
  \A key \in DOMAIN firstRecorded :
    /\ Cardinality(RowsOf(assignments, key[1], key[2])) = 1
    /\ \A i \in RowsOf(assignments, key[1], key[2]) :
         /\ assignments[i].person = firstRecorded[key].person
         /\ assignments[i].version_id = firstRecorded[key].version_id
    /\ \A call \in DOMAIN lookups :
         (call.date = key[1] /\ call.layerKey = key[2]) => ~call.late

\* two lookups of one (D, L) are in flight with different persons computed
C39_TwoInFlight ==
  \E c, d \in DOMAIN lookups :
    /\ c.date = d.date /\ c.layerKey = d.layerKey
    /\ c.pc = "store" /\ d.pc = "store"
    /\ c.assignment # None /\ d.assignment # None
    /\ The(c.assignment).person # The(d.assignment).person

\* the lookup that wrote second has returned a person other than the recorded
\* one, without the historical flag
C39_Diverged ==
  /\ lastResponse.op = "lookup"
  /\ ~lastResponse.late
  /\ ~lastResponse.isHistorical
  /\ <<lastResponse.date, lastResponse.layerKey>> \in DOMAIN firstRecorded
  /\ lastResponse.person # None
  /\ lastResponse.person #
       Some(firstRecorded[<<lastResponse.date, lastResponse.layerKey>>].person)

\* ------------------------------------------------------------------------
\* The hand-off list of a notification and the occurrences the scheduler arms
\* ------------------------------------------------------------------------
\* the occurrences of the weekday layers a tick at instant t arms
WeekdayArmedAt(t) ==
  { The(x) : x \in { y \in { getNextShiftOccurrence(StartInstant(scheduleData.weekday[i].config),
                                                    t, serverTz) :
                               i \in 1..Len(scheduleData.weekday) } :
                       InWindow(y, t) /\ The(y) - minutesBefore > t } }

\* the occurrences of the weekend layers a tick at instant t arms
WeekendArmedAt(t) ==
  { The(x) : x \in { y \in { getNextWeekendOccurrence(StartInstant(scheduleData.weekend[i].config),
                                                      t, serverTz) :
                               i \in 1..Len(scheduleData.weekend) } :
                       InWindow(y, t) /\ The(y) - minutesBefore > t } }

\* a notification fires for occurrence O: a tick of the day before it armed it
FiredFor(O) ==
  \E t \in (O - SlotsPerDay)..(O - 1) : O \in WeekdayArmedAt(t) \cup WeekendArmedAt(t)

\* the weekday occurrences after O the ticks from O on arm
ArmedAfter(O) ==
  {o \in UNION {WeekdayArmedAt(t) : t \in O..(O + 4 * SlotsPerDay)} : o > O}

\* sendShiftNotification asks for two entries, with the occurrence as now
HandOffOfNotification ==
  /\ HandOffListed
  /\ The(aResult).count = 2
  /\ FiredFor(aInstant)
  /\ ArmedAfter(aInstant) # {}

\* C40: in a notification fired for occurrence O the first entry of the
\* hand-off list is the earliest weekday occurrence after O for which the
\* scheduler arms a timer, Saturday occurrences of early-morning layers and
\* the first shifts after a weekend included.
C40_HandOffIsNextArmed ==
  HandOffOfNotification =>
    /\ The(aResult).list # <<>>
    /\ \A o \in ArmedAfter(aInstant) : The(aResult).list[1].startTime <= o
    /\ The(aResult).list[1].startTime \in ArmedAfter(aInstant)

\* C40 holds on a server in UTC whose weekday layers have the keys layer1 to
\* layer4, when neither O nor the next armed occurrence falls on a weekend day
C40_UtcWeekdays ==
  (/\ HandOffOfNotification
   /\ serverTz = 0
   /\ \A i \in 1..Len(scheduleData.weekday) :
        \E j \in 1..Len(layerSequence) : scheduleData.weekday[i].key = layerSequence[j]
   /\ getDay(aInstant, 0) \in 1..5
   /\ \A o \in ArmedAfter(aInstant) :
        (\A q \in ArmedAfter(aInstant) : o <= q) => getDay(o, 0) \in 1..5)
  => C40_HandOffIsNextArmed

\* the hand-off list of a notification names the next armed occurrence
C40_Agree ==
  /\ HandOffOfNotification
  /\ C40_HandOffIsNextArmed
  /\ The(aResult).list[1].startTime = aInstant + 1

\* the scheduler arms the Saturday occurrence of an early-morning layer next,
\* the hand-off list of the notification starts on Monday
C40_SaturdayLeftOut ==
  /\ HandOffOfNotification
  /\ serverTz = 0
  /\ \E o \in ArmedAfter(aInstant) :
       /\ getDay(o, serverTz) = 6
       /\ The(aResult).list # <<>>
       /\ The(aResult).list[1].startTime > o
       /\ getDay(The(aResult).list[1].startTime, serverTz) = 1


====
